---- MODULE Spec2Model ----
(***************************************************************************)
(* k8s-ai-healer: the control loop of cmd/healer/main.go and the engines   *)
(* it drives (collector, predictor, diagnostics, auto-healer, action       *)
(* engine).                                                                *)
(*                                                                         *)
(* Conventions                                                             *)
(*  - Strings that the code searches or slices (namespaces, pod and        *)
(*    deployment names) are sequences of one-character strings, so that    *)
(*    strings.Contains and the name[:n] prefix test are computed.          *)
(*  - "Percent" values (float64 in the code) are fixed point, in tenths of *)
(*    a percent: Pct(15) is 15 %.  Slopes and hours are exact fractions    *)
(*    [num, den]; float64 rounding is not modelled.                        *)
(*  - time.Now() reads the loop's tick number: time does not go backwards  *)
(*    and does not advance inside one tick.                                *)
(***************************************************************************)
EXTENDS Integers, Sequences, FiniteSets, TLC

VARIABLES
    cluster,          \* the cluster scenario of the run (environment)
    lastTick,         \* the tick after which the run is cut off (bound)
    dryRun,           \* the dryRun flag both engines were constructed with
    environ,          \* the environment variables the process was started with
    served,           \* api: the last response an HTTP handler wrote
    tick,             \* main: the loop counter i; also what time.Now() reads
    pc,               \* main: position inside the loop body
    metrics,          \* main: []collector.PodMetrics of the tick
    stuckContainers,  \* main: []DiagnosticResult of the tick
    containerChecks,  \* main: []ContainerCheckResult of the tick
    restartPatterns,  \* main: []RestartPattern of the tick
    healingActions,   \* main: []HealingAction of the tick
    predictions,      \* main: []PredictionResult of the tick
    podHistory,       \* Predictor.podHistory: key -> sequence of PodMetrics
    diagHistory,      \* DiagnosticsEngine.history: container -> sequence of stats
    actionCounts,     \* ActionEngine.actionCounts: key -> int
    healerHistory,    \* AutoHealer.history: the audit log behind /status, /actions
    deployments,      \* cluster: the deployments and their replicas
    calls,            \* ghost: every exec and mutating or read call issued, in order
    inserted,         \* ghost: key -> every PodMetrics passed to UpdateHistory
    appended,         \* ghost: every HealingAction ever stored, in order
    engineLog         \* ghost: what ExecuteActions printed: actions run and skips

locals == <<metrics, stuckContainers, containerChecks, restartPatterns,
            healingActions, predictions>>
config == <<cluster, lastTick, dryRun, environ>>
vars == <<cluster, lastTick, dryRun, environ, served, tick, pc, metrics,
          stuckContainers, containerChecks, restartPatterns, healingActions,
          predictions, podHistory, diagHistory,
          actionCounts, healerHistory, deployments, calls, inserted, appended, engineLog>>

----------------------------------------------------------------------------
(* Bounds of the model *)

MaxUpdates == 22
MaxAbsent == 1
MaxAuditTicks == 7
MaxLen == 6
MaxFaults == 1
MaxTicks == 4

(* Program constants *)

HistoryCap == 20
StatsCap == 10
AuditCap == 100
MaxActions == 3
Pct(x) == x * 10

----------------------------------------------------------------------------
(* Strings as character sequences *)

S_kube == <<"k","u","b","e","-">>
S_healer == <<"h","e","a","l","e","r","-">>
S_default == <<"d","e","f">>
S_web == <<"w","e","b">>
S_dns == <<"d","n","s">>
S_bot == <<"b","o","t">>
S_web1 == <<"w","e","b","-","1">>
S_web2 == <<"w","e","b","-","2">>

(* fmt.Sprintf("%s/%s", namespace, name): the pair, since no name holds "/" *)
PodKey(ns, name) == <<ns, name>>

(* strings.Contains *)
Contains(s, sub) ==
    \E i \in 1..(Len(s) - Len(sub) + 1) : SubSeq(s, i, i + Len(sub) - 1) = sub

HasPrefix(s, pre) == Len(s) >= Len(pre) /\ SubSeq(s, 1, Len(pre)) = pre

(* slice membership, contains(slice, item) *)
contains(slice, item) == \E i \in 1..Len(slice) : slice[i] = item

RECURSIVE SumOver(_, _)
SumOver(s, field) == IF s = <<>> THEN 0 ELSE Head(s)[field] + SumOver(Tail(s), field)

RECURSIVE Flatten(_)
Flatten(ss) == IF ss = <<>> THEN <<>> ELSE Head(ss) \o Flatten(Tail(ss))

RECURSIVE SelectSeqBy(_, _)
SelectSeqBy(s, keep) ==
    IF s = <<>> THEN <<>>
    ELSE (IF Head(s) \in keep THEN <<Head(s)>> ELSE <<>>) \o SelectSeqBy(Tail(s), keep)

----------------------------------------------------------------------------
(* collector.PodMetrics *)

PodMetrics(ns, name, cpu, mem, status, restarts, age) ==
    [Name |-> name, Namespace |-> ns, CPUPercent |-> cpu, MemPercent |-> mem,
     Status |-> status, Restarts |-> restarts, Age |-> age]

----------------------------------------------------------------------------
(* Predictor.UpdateHistory *)

Lookup(h, key) == IF key \in DOMAIN h THEN h[key] ELSE <<>>

EvictKeepFirst(s) == IF Len(s) > HistoryCap THEN SubSeq(s, 1, HistoryCap) ELSE s

Evict(s) == IF Len(s) > HistoryCap THEN SubSeq(s, 2, Len(s)) ELSE s

UpdateOne(h, metric) ==
    LET key == PodKey(metric.Namespace, metric.Name)
        kept == Evict(Append(Lookup(h, key), metric))
    IN  [k \in DOMAIN h \cup {key} |-> IF k = key THEN kept ELSE h[k]]

RECURSIVE UpdateHistory(_, _)
UpdateHistory(h, ms) ==
    IF ms = <<>> THEN h
    ELSE UpdateHistory(UpdateOne(h, Head(ms)), Tail(ms))

(* ghost: the same walk without eviction *)
RECURSIVE RecordInserted(_, _)
RecordInserted(g, ms) ==
    IF ms = <<>> THEN g
    ELSE LET m == Head(ms)
             key == PodKey(m.Namespace, m.Name)
         IN  RecordInserted(
                 [k \in DOMAIN g \cup {key} |->
                     IF k = key THEN Append(Lookup(g, key), m) ELSE g[k]],
                 Tail(ms))

----------------------------------------------------------------------------
(* Exact fractions with a positive denominator *)

Frac(n, d) == [num |-> n, den |-> d]
FracGT(f, k) == f.num > k * f.den
FracLT(f, k) == f.num < k * f.den
FracLE(f, k) == f.num <= k * f.den
(* f > a/b and f < -(a/b), for b > 0 *)
FracGTq(f, a, b) == f.num * b > a * f.den
FracLTnegq(f, a, b) == f.num * b < (0 - a) * f.den
Min(a, b) == IF a < b THEN a ELSE b

----------------------------------------------------------------------------
(* Predictor.calculateSlope: (last - first) / timeSpan, timeSpan = n*0.5/60 h, *)
(* n = len(history) + 1, i.e. (last - first) * 120 / n                        *)

Resource(m, resourceType) ==
    IF resourceType = "cpu" THEN m.CPUPercent ELSE m.MemPercent

SlopeSamples(history) == Len(history) + 1

calculateSlope(history, current, resourceType) ==
    IF Len(history) < 2 THEN Frac(0, 1)
    ELSE LET n == SlopeSamples(history)
             values == [i \in 1..(Len(history) + 1) |->
                           IF i <= Len(history)
                           THEN Resource(history[i], resourceType)
                           ELSE Resource(current, resourceType)]
             first == values[1]
             last == values[Len(values)]
         IN  Frac((last - first) * 120, n)

(* Predictor.calculateAdvancedTrend *)
calculateAdvancedTrend(history, current) ==
    IF Len(history) < 3
    THEN [CPUTrend |-> "UNKNOWN", MemTrend |-> "UNKNOWN",
          CPUSlope |-> Frac(0, 1), MemSlope |-> Frac(0, 1),
          IsMemoryLeak |-> FALSE, IsCPUGrowing |-> FALSE]
    ELSE LET cpuSlope == calculateSlope(history, current, "cpu")
             memSlope == calculateSlope(history, current, "memory")
         IN  [CPUSlope |-> cpuSlope,
              MemSlope |-> memSlope,
              IsMemoryLeak |-> FracGT(memSlope, Pct(1)),
              IsCPUGrowing |-> FracGT(cpuSlope, Pct(2)),
              CPUTrend |-> IF FracGT(cpuSlope, Pct(5)) THEN "RISING_FAST"
                           ELSE IF FracGT(cpuSlope, Pct(2)) THEN "RISING"
                           ELSE IF FracLT(cpuSlope, 0 - Pct(5)) THEN "FALLING_FAST"
                           ELSE IF FracLT(cpuSlope, 0 - Pct(2)) THEN "FALLING"
                           ELSE "STABLE",
              MemTrend |-> IF FracGT(memSlope, Pct(3)) THEN "RISING_FAST"
                           ELSE IF FracGT(memSlope, Pct(1)) THEN "RISING"
                           ELSE IF FracLT(memSlope, 0 - Pct(3)) THEN "FALLING_FAST"
                           ELSE IF FracLT(memSlope, 0 - Pct(1)) THEN "FALLING"
                           ELSE "STABLE"]

(* Predictor.detectPerformanceDegradation: increases > len(history) * 0.7 *)
Increases(history, resourceType) ==
    Cardinality({i \in 2..Len(history) :
        Resource(history[i], resourceType) > Resource(history[i-1], resourceType)})

detectPerformanceDegradation(history, current) ==
    IF Len(history) < 5 THEN FALSE
    ELSE \/ Increases(history, "cpu") * 10 > Len(history) * 7
         \/ Increases(history, "memory") * 10 > Len(history) * 7

----------------------------------------------------------------------------
(* Predictor.analyzePodAdvanced, section by section.  st pairs the result  *)
(* under construction with the local variable score.                       *)

NoFailure == [cause |-> "N/A", hours |-> Frac(0, 1)]

NewResult(current) ==
    [result |-> [PodName |-> current.Name,
                 PodNamespace |-> current.Namespace,
                 Risk |-> "LOW",
                 Issues |-> <<>>,
                 Action |-> "MONITOR",
                 Confidence |-> 100,
                 Score |-> 0,
                 TimeToFailure |-> NoFailure,
                 Trend |-> "STABLE",
                 MemoryLeakRate |-> Frac(0, 1),
                 CPUGrowthRate |-> Frac(0, 1),
                 PredictionHours |-> 0],
     score |-> 0]

Flag(st, issue, risk, action, add) ==
    [result |-> [st.result EXCEPT !.Issues = Append(@, issue),
                                  !.Risk = risk,
                                  !.Action = action],
     score |-> st.score + add]

(* 1. current resource thresholds *)
CpuThreshold(st, current) ==
    IF current.CPUPercent > Pct(15)
    THEN Flag(st, "CRITICAL CPU", "CRITICAL", "SCALE_UP_URGENT", 40)
    ELSE IF current.CPUPercent > Pct(10)
    THEN Flag(st, "HIGH CPU", "HIGH", "SCALE_UP", 25)
    ELSE st

MemThreshold(st, current) ==
    IF current.MemPercent > Pct(15)
    THEN Flag(st, "CRITICAL Memory", "CRITICAL", "RESTART_POD_URGENT", 40)
    ELSE IF current.MemPercent > Pct(10)
    THEN Flag(st, "HIGH Memory", "HIGH", "RESTART_POD", 25)
    ELSE st

(* 2. trend analysis *)
HoursTo100(percent, slope) == Frac((Pct(100) - percent) * slope.den, slope.num)

Forecast(st, issue, cause, h, add) ==
    [result |-> [st.result EXCEPT !.Issues = Append(@, issue),
                                  !.TimeToFailure = [cause |-> cause, hours |-> h],
                                  !.PredictionHours = h.num \div h.den],
     score |-> st.score + add]

Decide(st, risk, action, add) ==
    [result |-> [st.result EXCEPT !.Risk = risk, !.Action = action],
     score |-> st.score + add]

CpuForecast(st, current, trend) ==
    IF ~FracGT(trend.CPUSlope, Pct(2)) THEN st
    ELSE LET h == HoursTo100(current.CPUPercent, trend.CPUSlope)
         IN  IF ~(FracGT(h, 0) /\ FracLE(h, 72)) THEN st
             ELSE LET f == Forecast(st, "CPU PREDICTION", "CPU overload", h, 30)
                  IN  IF FracLT(h, 24)
                      THEN Decide(f, "CRITICAL", "SCALE_UP_URGENT", 20)
                      ELSE Decide(f, "HIGH", "SCALE_UP_PLANNED", 0)

MemForecast(st, current, trend) ==
    IF ~FracGT(trend.MemSlope, Pct(1)) THEN st
    ELSE LET h == HoursTo100(current.MemPercent, trend.MemSlope)
         IN  IF ~(FracGT(h, 0) /\ FracLE(h, 72)) THEN st
             ELSE LET f == Forecast(st, "MEMORY LEAK DETECTED", "Memory leak", h, 35)
                  IN  IF FracLT(h, 12)
                      THEN LET d == Decide(f, "CRITICAL", "RESTART_POD_URGENT", 25)
                           IN  [d EXCEPT !.result.Issues =
                                    Append(@, "IMMEDIATE ACTION REQUIRED")]
                      ELSE IF FracLT(h, 24)
                      THEN Decide(f, "HIGH", "RESTART_POD_PLANNED", 0)
                      ELSE Decide(f, "MEDIUM", "MONITOR_MEMORY_LEAK", 0)

Degradation(st, history, current) ==
    IF ~detectPerformanceDegradation(history, current) THEN st
    ELSE LET s == [st EXCEPT !.result.Issues =
                       Append(@, "Performance degradation detected over time"),
                             !.score = @ + 20]
         IN  IF s.result.Risk = "LOW"
             THEN Decide(s, "MEDIUM", "INVESTIGATE_PERFORMANCE", 0)
             ELSE s

TrendLabel(trend) ==
    IF FracGT(trend.CPUSlope, Pct(2)) /\ FracGT(trend.MemSlope, Pct(1))
    THEN "CRITICAL_GROWTH"
    ELSE IF FracGT(trend.CPUSlope, Pct(1)) \/ FracGTq(trend.MemSlope, Pct(1), 2)
    THEN "GROWING"
    ELSE IF FracLT(trend.CPUSlope, 0 - Pct(1)) \/ FracLTnegq(trend.MemSlope, Pct(1), 2)
    THEN "DECLINING"
    ELSE "STABLE"

(* the body of if len(history) >= 5 *)
TrendRules(st, current, history) ==
    LET trend == calculateAdvancedTrend(history, current)
        s0 == [st EXCEPT !.result.MemoryLeakRate = trend.MemSlope,
                         !.result.CPUGrowthRate = trend.CPUSlope]
        s1 == CpuForecast(s0, current, trend)
        s2 == MemForecast(s1, current, trend)
        s3 == Degradation(s2, history, current)
    IN  [s3 EXCEPT !.result.Trend = TrendLabel(trend)]

TrendSectionFrom3(st, current, history) ==
    IF Len(history) < 3 THEN st ELSE TrendRules(st, current, history)

TrendSection(st, current, history) ==
    IF Len(history) < 5 THEN st ELSE TrendRules(st, current, history)

(* 3. restart pattern and pod status *)
RestartRule(st, current) ==
    IF current.Restarts >= 3
    THEN [st EXCEPT !.result.Issues = Append(@, "High restart count"),
                    !.score = @ + 30,
                    !.result.Action = "INVESTIGATE_RESTARTS"]
    ELSE st

StatusRule(st, current) ==
    IF current.Status # "Running"
    THEN Flag(st, "Pod not running", "CRITICAL", "RESTART_POD", 50)
    ELSE st

FinalizeKeepRisk(st) == [st.result EXCEPT !.Score = Min(st.score, 100)]

(* 4. finalize: the risk is re-derived from the score *)
Finalize(st) ==
    LET score == Min(st.score, 100)
        band == IF score >= 80 THEN <<"CRITICAL", 95>>
                ELSE IF score >= 60 THEN <<"HIGH", 90>>
                ELSE IF score >= 40 THEN <<"MEDIUM", 85>>
                ELSE IF score >= 20 THEN <<"LOW-MEDIUM", 80>>
                ELSE <<"LOW", 100>>
    IN  [st.result EXCEPT !.Score = score, !.Risk = band[1], !.Confidence = band[2]]

RawScoreRestartsFirst(current, history) ==
    StatusRule(TrendSection(
        MemThreshold(CpuThreshold(RestartRule(NewResult(current), current), current),
                     current),
        current, history), current)

(* the rules in the order of the code: thresholds, trend, restarts, status *)
RawScore(current, history) ==
    StatusRule(RestartRule(TrendSection(
        MemThreshold(CpuThreshold(NewResult(current), current), current),
        current, history), current), current)

analyzePodAdvanced(current, history) == Finalize(RawScore(current, history))

ReportedFrom30(result) == result.Score >= 30 \/ result.TimeToFailure.cause # "N/A"

(* Predictor.PredictIssues *)
Reported(result) == result.Score > 30 \/ result.TimeToFailure.cause # "N/A"

RECURSIVE PredictIssues(_, _)
PredictIssues(h, currentMetrics) ==
    IF currentMetrics = <<>> THEN <<>>
    ELSE LET metric == Head(currentMetrics)
             key == PodKey(metric.Namespace, metric.Name)
             result == analyzePodAdvanced(metric, Lookup(h, key))
             rest == PredictIssues(h, Tail(currentMetrics))
         IN  IF Reported(result) THEN <<result>> \o rest ELSE rest

----------------------------------------------------------------------------
(* The cluster the process talks to.  A run fixes one scenario: the pods    *)
(* (with their usage and the way each container answers an exec), and the   *)
(* API calls that fail.                                                     *)

Healthy ==
    [execErr |-> FALSE, dnsInt |-> TRUE, dnsExt |-> TRUE, disk |-> 50, tmp |-> 50,
     largeFiles |-> 0, netInt |-> TRUE, netExt |-> TRUE, procCount |-> 10,
     load |-> 0, pingOk |-> TRUE, failing |-> {}, hangs |-> FALSE]

ProbeProfiles ==
    { Healthy,
      [Healthy EXCEPT !.execErr = TRUE],
      [Healthy EXCEPT !.dnsInt = FALSE],
      [Healthy EXCEPT !.dnsExt = FALSE, !.netExt = FALSE],
      [Healthy EXCEPT !.disk = 95, !.tmp = 90],
      [Healthy EXCEPT !.disk = 85, !.largeFiles = 2],
      [Healthy EXCEPT !.tmp = 96, !.procCount = 2],
      [Healthy EXCEPT !.netInt = FALSE, !.pingOk = FALSE, !.load = 90],
      [Healthy EXCEPT !.netInt = FALSE],
      [Healthy EXCEPT !.disk = 95, !.tmp = 96,
                      !.failing = {"find /tmp -atime +1 -delete",
                                   "find /tmp -name core.* -delete",
                                   "find / -name *.core -delete"}] }

Unhealthy ==
    [Healthy EXCEPT !.dnsInt = FALSE, !.disk = 95, !.tmp = 96,
                    !.netInt = FALSE, !.pingOk = FALSE, !.procCount = 2]

NoExit == [terminated |-> FALSE, code |-> 0, reason |-> ""]
Exited(code, reason) == [terminated |-> TRUE, code |-> code, reason |-> reason]

Container(name, restarts, lastExit, probe) ==
    [Name |-> name, RestartCount |-> restarts, LastExit |-> lastExit, probe |-> probe]

(* Away: the ticks at which the pod is not in the cluster's listing *)
Pod(ns, name, phase, containers, createdAgo, cpuMilli, memMilliGi) ==
    [Namespace |-> ns, Name |-> name, Phase |-> phase, Containers |-> containers,
     CreatedAgo |-> createdAgo, CpuMilli |-> cpuMilli, MemMilliGi |-> memMilliGi,
     Metered |-> TRUE, Away |-> {}]

RECURSIVE Present(_, _)
Present(pods, i) ==
    IF pods = <<>> THEN <<>>
    ELSE (IF i \in Head(pods).Away THEN <<>> ELSE <<Head(pods)>>) \o Present(Tail(pods), i)

(* Pods("").List *)
ListPods(scn, i) ==
    IF "listPods" \in scn.faults \/ ("listPodsOnce" \in scn.faults /\ i = 1)
    THEN [err |-> TRUE, items |-> <<>>]
    ELSE [err |-> FALSE, items |-> Present(scn.pods, i)]

(* Pods of system namespaces, in a state every rule of the loop would act on *)
SystemPods ==
    << Pod(S_kube \o <<"s","y","s">>, S_dns \o <<"-","1">>, "Running",
           <<Container("c", 12, Exited(137, "OOMKilled"), Unhealthy)>>,
           240, 200, 200),
       Pod(S_healer \o <<"s","y","s">>, S_bot \o <<"-","1">>, "Running",
           <<Container("c", 4, NoExit, [Unhealthy EXCEPT !.execErr = TRUE])>>,
           240, 200, 200) >>

UserPod(name, phase, restarts, cpu, mem, probe) ==
    Pod(S_default, name, phase, <<Container("app", restarts, NoExit, probe)>>,
        240, cpu, mem)

(* one pod over every phase, restart count and usage, and over every probe profile; *)
(* and one the metrics API holds no entry for                                       *)
UserPods ==
    { UserPod(S_web1, phase, restarts, cpu, mem, Healthy) :
        phase \in {"Running", "Pending"}, restarts \in {0, 3},
        cpu \in {0, 200}, mem \in {0, 120, 200} }
    \cup
    { UserPod(S_web1, "Running", 0, cpu, 0, probe) :
        cpu \in {0, 200}, probe \in ProbeProfiles }
    \cup
    { [UserPod(S_web1, "Running", 0, 200, 200, Healthy) EXCEPT !.Metered = FALSE] }

(* a second pod of the same deployment: 12% CPU and a full /tmp *)
Peer == UserPod(S_web2, "Running", 0, 120, 0, [Healthy EXCEPT !.tmp = 96])

(* listPods: every listing fails; listPodsOnce: the listings of the first tick fail *)
FaultKinds ==
    {"listPods", "listPodsOnce", "listMetrics", "deletePod", "updateDeployment"}

FaultSets == {g \in SUBSET FaultKinds : Cardinality(g) <= MaxFaults}

Scenario(pods, faults) == [pods |-> pods, faults |-> faults]

Scenarios ==
    { Scenario(<<SystemPods[1], p>> \o peers \o <<SystemPods[2]>>, f) :
        p \in UserPods, peers \in {<<>>, <<Peer>>}, f \in FaultSets }

InitialDeployments == << [Name |-> S_web, Namespace |-> S_default, Replicas |-> 2],
                         [Name |-> S_dns, Namespace |-> S_kube \o <<"s","y","s">>,
                          Replicas |-> 1] >>

----------------------------------------------------------------------------
(* Collector.GetAllPodMetrics *)

CollectorSkips(pod) ==
    Contains(pod.Namespace, S_kube) \/ Contains(pod.Namespace, S_healer)

HasUsageAlways(scn, pod) == TRUE

(* metricsMap: the usage the metrics API reports for the pod; nothing when *)
(* the listing failed or holds no entry for the pod                        *)
HasUsage(scn, pod) == "listMetrics" \notin scn.faults /\ pod.Metered

PodMetricOf(scn, pod, i) ==
    LET base == PodMetrics(pod.Namespace, pod.Name, 0, 0, pod.Phase,
                           SumOver(pod.Containers, "RestartCount"),
                           pod.CreatedAgo + i)
    IN  IF HasUsage(scn, pod)
        THEN [base EXCEPT !.CPUPercent = (pod.CpuMilli * 10) \div 10,
                          !.MemPercent = (pod.MemMilliGi * 100 * 10) \div 1000]
        ELSE base

RECURSIVE CollectPods(_, _, _)
CollectPods(scn, pods, i) ==
    IF pods = <<>> THEN <<>>
    ELSE (IF CollectorSkips(Head(pods)) THEN <<>>
          ELSE <<PodMetricOf(scn, Head(pods), i)>>)
         \o CollectPods(scn, Tail(pods), i)

GetAllPodMetrics(scn, i) ==
    LET pods == ListPods(scn, i)
    IN  IF pods.err THEN [err |-> TRUE, metrics |-> <<>>]
        ELSE [err |-> FALSE, metrics |-> CollectPods(scn, pods.items, i)]

----------------------------------------------------------------------------
(* DiagnosticsEngine.execInContainer: what a container answers.  An answer  *)
(* is a text token, or a number for the pipelines that print one.  Every    *)
(* call is also recorded (ghost) in the log of cluster calls.               *)

Text(t) == [isNum |-> FALSE, text |-> t, num |-> 0]
Num(n) == [isNum |-> TRUE, text |-> "", num |-> n]

Answer(probe, cmd) ==
    CASE cmd = "nslookup kubernetes.default" ->
            IF probe.dnsInt THEN Text("Name:") ELSE Text("DNS_FAIL")
      [] cmd = "nslookup google.com" ->
            IF probe.dnsExt THEN Text("Name:") ELSE Text("EXTERNAL_DNS_FAIL")
      [] cmd = "df /" -> Num(probe.disk)
      [] cmd = "df /tmp" -> Num(probe.tmp)
      [] cmd = "find /tmp -size +10M | wc -l" -> Num(probe.largeFiles)
      [] cmd = "wget kubernetes.default" ->
            IF probe.netInt THEN Text("OK") ELSE Text("FAIL")
      [] cmd = "wget google.com" ->
            IF probe.netExt THEN Text("OK") ELSE Text("FAIL")
      [] cmd = "ps aux | wc -l" -> Num(probe.procCount)
      [] cmd = "uptime" -> Num(probe.load)
      [] cmd = "ping kubernetes.default" ->
            IF probe.pingOk THEN Text("Network OK") ELSE Text("Network FAIL")
      [] cmd = "nslookup kubernetes.default (fix)" ->
            IF probe.dnsInt THEN Text("DNS OK") ELSE Text("DNS FAIL")
      [] OTHER -> Text("")

(* strings.Contains(output, "DNS_FAIL"): EXTERNAL_DNS_FAIL holds it too *)
HasDnsFail(out) == out.text \in {"DNS_FAIL", "EXTERNAL_DNS_FAIL"}
HasFail(out) == out.text = "FAIL"
HasNetworkFail(out) == out.text = "Network FAIL"

(* execErr: every exec into the container fails; failing: the commands *)
(* whose stream fails                                                  *)
execInContainer(probe, cmd) ==
    IF probe.execErr \/ cmd \in probe.failing THEN [err |-> TRUE, out |-> Text("")]
    ELSE [err |-> FALSE, out |-> Answer(probe, cmd)]

ExecCall(ns, pod, container, cmd) ==
    [op |-> "Exec", ns |-> ns, pod |-> pod, container |-> container, cmd |-> cmd]

ApiCall(op, ns, name) ==
    [op |-> op, ns |-> ns, pod |-> name, container |-> "", cmd |-> ""]

----------------------------------------------------------------------------
(* diagnostics.go: stuck containers *)

W_unresponsive ==
    <<"Container", "exec", "commands", "failing", "-", "container", "may", "be",
      "unresponsive">>
W_highLoad ==
    <<"Consistently", "high", "system", "load", "-", "container", "may", "be", "stuck">>
W_lowProcesses ==
    <<"Very", "low", "process", "count", "-", "container", "may", "be", "in",
      "minimal", "state">>
W_decreasing ==
    <<"Process", "count", "decreasing", "rapidly", "-", "application", "may", "be",
      "failing">>

StatsCommands == <<"ps aux | wc -l", "uptime", "df / (stats)">>

(* getContainerStats: never returns an error *)
getContainerStats(ns, pod, c, i) ==
    LET proc == execInContainer(c.probe, "ps aux | wc -l")
        up == execInContainer(c.probe, "uptime")
    IN  [stats |-> [Timestamp |-> i,
                    CPUIOwait |-> IF up.err THEN 0 ELSE up.out.num,
                    ProcessCount |-> IF proc.err THEN 0 ELSE proc.out.num,
                    IsStuck |-> proc.err],
         calls |-> [k \in 1..3 |-> ExecCall(ns, pod, c.Name, StatsCommands[k])]]

detectStuckContainer(h) ==
    IF Len(h) < 3 THEN [stuck |-> FALSE, reason |-> <<>>]
    ELSE LET recent == SubSeq(h, Len(h) - 2, Len(h))
         IN  IF \E k \in 1..3 : recent[k].IsStuck
             THEN [stuck |-> TRUE, reason |-> W_unresponsive]
             ELSE IF \A k \in 1..3 : ~(recent[k].CPUIOwait < 80)
             THEN [stuck |-> TRUE, reason |-> W_highLoad]
             ELSE IF \A k \in 1..3 : ~(recent[k].ProcessCount > 3)
             THEN [stuck |-> TRUE, reason |-> W_lowProcesses]
             ELSE IF recent[1].ProcessCount > 0
                     /\ recent[3].ProcessCount < recent[1].ProcessCount - 3
             THEN [stuck |-> TRUE, reason |-> W_decreasing]
             ELSE [stuck |-> FALSE, reason |-> <<>>]

generateActions(reason) ==
    (IF Contains(reason, <<"unresponsive">>) \/ Contains(reason, <<"failing">>)
     THEN <<"RESTART_POD", "CHECK_LOGS">> ELSE <<>>)
    \o (IF Contains(reason, <<"high", "load">>) \/ Contains(reason, <<"stuck">>)
        THEN <<"RESTART_POD", "CHECK_RESOURCES">> ELSE <<>>)
    \o (IF Contains(reason, <<"process", "count">>)
        THEN <<"RESTART_POD", "INVESTIGATE_APP">> ELSE <<>>)
    \o (IF Contains(reason, <<"minimal", "state">>)
        THEN <<"CHECK_HEALTH", "MONITOR_CLOSELY">> ELSE <<>>)

StatsKey(ns, pod, container) == <<ns, pod, container>>

TrimStatsNever(s) == s

(* keep only last 10 measurements *)
TrimStats(s) == IF Len(s) > StatsCap THEN SubSeq(s, 2, Len(s)) ELSE s

(* analyzeContainer: [result, history, calls] *)
analyzeContainer(dh, ns, pod, c, i) ==
    LET got == getContainerStats(ns, pod, c, i)
        key == StatsKey(ns, pod, c.Name)
        kept == TrimStats(Append(Lookup(dh, key), got.stats))
        verdict == detectStuckContainer(kept)
    IN  [result |-> [PodName |-> pod, Namespace |-> ns, ContainerName |-> c.Name,
                     IsStuck |-> verdict.stuck,
                     StuckReason |-> verdict.reason,
                     Severity |-> IF verdict.stuck THEN "CRITICAL" ELSE "OK",
                     Actions |-> IF verdict.stuck THEN generateActions(verdict.reason)
                                 ELSE <<>>],
         history |-> [k \in DOMAIN dh \cup {key} |-> IF k = key THEN kept ELSE dh[k]],
         calls |-> got.calls]

StuckSkips(pod) ==
    Contains(pod.Namespace, S_kube) \/ Contains(pod.Namespace, S_healer)

(* the containers of one pod, then the pods of the listing *)
RECURSIVE StuckInPod(_, _, _, _)
StuckInPod(acc, pod, cs, i) ==
    IF cs = <<>> THEN acc
    ELSE LET a == analyzeContainer(acc.history, pod.Namespace, pod.Name, Head(cs), i)
         IN  StuckInPod([results |-> acc.results
                                     \o (IF a.result.IsStuck THEN <<a.result>> ELSE <<>>),
                         history |-> a.history,
                         calls |-> acc.calls \o a.calls],
                        pod, Tail(cs), i)

RECURSIVE StuckInPods(_, _, _)
StuckInPods(acc, pods, i) ==
    IF pods = <<>> THEN acc
    ELSE LET pod == Head(pods)
         IN  IF pod.Phase # "Running" \/ StuckSkips(pod)
             THEN StuckInPods(acc, Tail(pods), i)
             ELSE StuckInPods(StuckInPod(acc, pod, pod.Containers, i), Tail(pods), i)

DiagnoseStuckContainers(scn, dh, i) ==
    LET pods == ListPods(scn, i)
    IN  IF pods.err
        THEN [err |-> TRUE, results |-> <<>>, history |-> dh, calls |-> <<>>]
        ELSE [err |-> FALSE] @@
             StuckInPods([results |-> <<>>, history |-> dh, calls |-> <<>>],
                         pods.items, i)

----------------------------------------------------------------------------
(* diagnostics.go: container checks.  Each check yields [check, calls].     *)

Check(name, status, severity, fixActions) ==
    [CheckName |-> name, Status |-> status, Severity |-> severity,
     FixActions |-> fixActions]

checkDNS(ns, pod, c) ==
    LET first == execInContainer(c.probe, "nslookup kubernetes.default")
        second == execInContainer(c.probe, "nslookup google.com")
        call1 == ExecCall(ns, pod, c.Name, "nslookup kubernetes.default")
        call2 == ExecCall(ns, pod, c.Name, "nslookup google.com")
    IN  IF first.err \/ HasDnsFail(first.out)
        THEN [check |-> Check("DNS Resolution", "CRITICAL", "HIGH",
                              <<"RESTART_POD", "CHECK_DNS_CONFIG", "RESTART_DNS">>),
              calls |-> <<call1>>]
        ELSE IF second.err \/ HasDnsFail(second.out)
        THEN [check |-> Check("DNS Resolution", "WARNING", "MEDIUM",
                              <<"CHECK_NETWORK", "CHECK_DNS_SERVERS">>),
              calls |-> <<call1, call2>>]
        ELSE [check |-> Check("DNS Resolution", "OK", "LOW", <<>>),
              calls |-> <<call1, call2>>]

checkDiskSpace(ns, pod, c) ==
    LET r == execInContainer(c.probe, "df /")
        usage == r.out.num
        check ==
            IF r.err \/ ~r.out.isNum
            THEN Check("Disk Space", "WARNING", "LOW", <<>>)
            ELSE IF usage > 90
            THEN Check("Disk Space", "CRITICAL", "HIGH",
                       <<"CLEANUP_DISK", "RESTART_POD", "SCALE_STORAGE">>)
            ELSE IF usage > 80
            THEN Check("Disk Space", "WARNING", "MEDIUM",
                       <<"CLEANUP_DISK", "MONITOR_DISK">>)
            ELSE Check("Disk Space", "OK", "LOW", <<>>)
    IN  [check |-> check, calls |-> <<ExecCall(ns, pod, c.Name, "df /")>>]

WithLargeFilesOverriding(check, large) ==
    IF ~large.err /\ large.out.isNum /\ large.out.num > 0
    THEN [check EXCEPT !.Status = "WARNING", !.FixActions = <<"CLEANUP_TMP">>]
    ELSE check

(* the large files of /tmp: they only raise a check that is still OK *)
WithLargeFiles(check, large) ==
    IF ~large.err /\ large.out.isNum /\ large.out.num > 0 /\ check.Status = "OK"
    THEN [check EXCEPT !.Status = "WARNING", !.FixActions = <<"CLEANUP_TMP">>]
    ELSE check

checkTmpDirectory(ns, pod, c) ==
    LET r == execInContainer(c.probe, "df /tmp")
        usage == r.out.num
        large == execInContainer(c.probe, "find /tmp -size +10M | wc -l")
        call1 == ExecCall(ns, pod, c.Name, "df /tmp")
        call2 == ExecCall(ns, pod, c.Name, "find /tmp -size +10M | wc -l")
        byUsage ==
            IF usage > 95
            THEN Check("/tmp Directory", "CRITICAL", "HIGH",
                       <<"CLEANUP_TMP", "RESTART_POD">>)
            ELSE IF usage > 85
            THEN Check("/tmp Directory", "WARNING", "MEDIUM", <<"CLEANUP_TMP">>)
            ELSE Check("/tmp Directory", "OK", "LOW", <<>>)
    IN  IF r.err \/ ~r.out.isNum
        THEN [check |-> Check("/tmp Directory", "OK", "LOW", <<>>), calls |-> <<call1>>]
        ELSE [check |-> WithLargeFiles(byUsage, large), calls |-> <<call1, call2>>]

checkNetworkConnectivity(ns, pod, c) ==
    LET int == execInContainer(c.probe, "wget kubernetes.default")
        ext == execInContainer(c.probe, "wget google.com")
        afterInt ==
            IF int.err \/ HasFail(int.out)
            THEN Check("Network Connectivity", "WARNING", "MEDIUM",
                       <<"CHECK_NETWORK", "RESTART_POD">>)
            ELSE Check("Network Connectivity", "OK", "LOW", <<>>)
    IN  [check |->
            IF (ext.err \/ HasFail(ext.out)) /\ afterInt.Status = "OK"
            THEN Check("Network Connectivity", "WARNING", "LOW",
                       <<"CHECK_EXTERNAL_NETWORK">>)
            ELSE afterInt,
         calls |-> <<ExecCall(ns, pod, c.Name, "wget kubernetes.default"),
                     ExecCall(ns, pod, c.Name, "wget google.com")>>]

RECURSIVE OverallLast(_, _)
OverallLast(status, checks) ==
    IF checks = <<>> THEN status
    ELSE OverallLast(IF Head(checks).Status # "OK" THEN Head(checks).Status ELSE status,
                     Tail(checks))

(* the loop that folds the checks into the overall status *)
RECURSIVE Overall(_, _)
Overall(status, checks) ==
    IF checks = <<>> THEN status
    ELSE Overall(IF Head(checks).Status = "CRITICAL" THEN "CRITICAL"
                 ELSE IF Head(checks).Status = "WARNING" /\ status # "CRITICAL"
                 THEN "WARNING"
                 ELSE status,
                 Tail(checks))

checkContainer(ns, pod, c) ==
    LET dns == checkDNS(ns, pod, c)
        disk == checkDiskSpace(ns, pod, c)
        tmp == checkTmpDirectory(ns, pod, c)
        net == checkNetworkConnectivity(ns, pod, c)
        checks == <<dns.check, disk.check, tmp.check, net.check>>
        overall == Overall("OK", checks)
    IN  [result |-> [PodName |-> pod, Namespace |-> ns, ContainerName |-> c.Name,
                     Checks |-> checks, OverallStatus |-> overall,
                     NeedsAction |-> overall # "OK"],
         calls |-> dns.calls \o disk.calls \o tmp.calls \o net.calls]

ChecksSkipNone(pod) == FALSE

ChecksSkip(pod) ==
    Contains(pod.Namespace, S_kube) \/ Contains(pod.Namespace, S_healer)

RECURSIVE ChecksInPod(_, _, _)
ChecksInPod(acc, pod, cs) ==
    IF cs = <<>> THEN acc
    ELSE LET r == checkContainer(pod.Namespace, pod.Name, Head(cs))
         IN  ChecksInPod([results |-> acc.results
                                      \o (IF r.result.NeedsAction THEN <<r.result>>
                                          ELSE <<>>),
                          calls |-> acc.calls \o r.calls],
                         pod, Tail(cs))

RECURSIVE ChecksInPods(_, _)
ChecksInPods(acc, pods) ==
    IF pods = <<>> THEN acc
    ELSE LET pod == Head(pods)
         IN  IF pod.Phase # "Running" \/ ChecksSkip(pod)
             THEN ChecksInPods(acc, Tail(pods))
             ELSE ChecksInPods(ChecksInPod(acc, pod, pod.Containers), Tail(pods))

RunContainerChecks(scn, i) ==
    LET pods == ListPods(scn, i)
    IN  IF pods.err THEN [err |-> TRUE, results |-> <<>>, calls |-> <<>>]
        ELSE [err |-> FALSE] @@
             ChecksInPods([results |-> <<>>, calls |-> <<>>], pods.items)

----------------------------------------------------------------------------
(* restart_analyzer.go.  Ages are in ticks of 30 s: one hour is 120 ticks.  *)

TicksPerHour == 120

RECURSIVE ExitReasons(_, _)
ExitReasons(pattern, statuses) ==
    IF statuses = <<>> THEN pattern
    ELSE LET e == Head(statuses).LastExit
             byCode ==
                 IF ~e.terminated THEN pattern
                 ELSE IF e.code = 137
                 THEN [pattern EXCEPT !.RootCause = "Container killed by OOM or system",
                                      !.Actions = @ \o <<"INCREASE_MEMORY", "CHECK_OOM">>]
                 ELSE IF e.code = 143
                 THEN [pattern EXCEPT !.RootCause = "Container gracefully terminated",
                                      !.Actions = @ \o <<"CHECK_SHUTDOWN_HOOKS">>]
                 ELSE IF e.code = 1
                 THEN [pattern EXCEPT !.RootCause = "Application error exit",
                                      !.Actions = @ \o <<"CHECK_APPLICATION_LOGS",
                                                         "DEBUG_APPLICATION">>]
                 ELSE pattern
             byReason ==
                 IF e.terminated /\ e.reason = "OOMKilled"
                 THEN [byCode EXCEPT !.RootCause = "Out of Memory killed",
                                     !.Severity = "CRITICAL",
                                     !.Actions = <<"INCREASE_MEMORY_LIMITS",
                                                   "CHECK_MEMORY_LEAK", "OPTIMIZE_MEMORY">>]
                 ELSE byCode
         IN  ExitReasons(byReason, Tail(statuses))

Periodic ==
    <<"PERIODIC_RESTART", "Regular restart pattern - possible memory leak",
      <<"CHECK_MEMORY_LEAK", "MONITOR_RESOURCES", "CHECK_LOGS">>>>

PatternOfFrequencyFirst(totalRestarts, podAge, perHour) ==
    IF FracGTq(perHour, 1, 10) THEN Periodic ELSE <<>>

(* the if / else-if chain on the restart count and the pod's age: *)
(* <<Pattern, RootCause, Actions>>, or <<>> when no branch is taken *)
PatternOf(totalRestarts, podAge, perHour) ==
    IF totalRestarts >= 10
    THEN <<"CRASH_LOOP", "Persistent application crashes",
           <<"CHECK_LOGS", "ROLLBACK_DEPLOYMENT", "CHECK_RESOURCES">>>>
    ELSE IF totalRestarts >= 5 /\ podAge < TicksPerHour
    THEN <<"RAPID_RESTART", "Fast restart cycle - likely config issue",
           <<"CHECK_CONFIG", "CHECK_LOGS", "RESTART_POD">>>>
    ELSE IF totalRestarts >= 3 /\ podAge * 2 < TicksPerHour
    THEN <<"STARTUP_FAILURE", "Application failing to start properly",
           <<"CHECK_STARTUP_PROBE", "CHECK_DEPENDENCIES", "CHECK_LOGS">>>>
    ELSE IF FracGTq(perHour, 1, 10)
    THEN Periodic
    ELSE <<>>

analyzeRestartPattern(pod, i) ==
    LET totalRestarts == SumOver(pod.Containers, "RestartCount")
        podAge == pod.CreatedAgo + i
        base == [PodName |-> pod.Name, Namespace |-> pod.Namespace,
                 RestartCount |-> totalRestarts, Pattern |-> "STABLE",
                 Frequency |-> "NONE", Severity |-> "OK",
                 RootCause |-> "No restarts detected", Actions |-> <<>>]
        (* restartsPerHour = totalRestarts / podAge.Hours() *)
        perHour == Frac(totalRestarts * TicksPerHour, podAge)
        freq == IF FracGT(perHour, 2) THEN <<"VERY_HIGH", "CRITICAL">>
                ELSE IF FracGT(perHour, 1) THEN <<"HIGH", "HIGH">>
                ELSE IF FracGTq(perHour, 1, 2) THEN <<"MEDIUM", "MEDIUM">>
                ELSE <<"LOW", "LOW">>
        withFreq == [base EXCEPT !.Frequency = freq[1], !.Severity = freq[2]]
        chosen == PatternOf(totalRestarts, podAge, perHour)
        withPattern ==
            IF chosen = <<>> THEN withFreq
            ELSE [withFreq EXCEPT !.Pattern = chosen[1], !.RootCause = chosen[2],
                                  !.Actions = chosen[3]]
    IN  IF totalRestarts = 0 THEN base
        ELSE ExitReasons(withPattern, pod.Containers)

RestartSkips(pod) ==
    Contains(pod.Namespace, S_kube) \/ Contains(pod.Namespace, S_healer)

RECURSIVE RestartsInPods(_, _)
RestartsInPods(pods, i) ==
    IF pods = <<>> THEN <<>>
    ELSE LET pattern == analyzeRestartPattern(Head(pods), i)
         IN  (IF ~RestartSkips(Head(pods)) /\ pattern.RestartCount > 0
              THEN <<pattern>> ELSE <<>>)
             \o RestartsInPods(Tail(pods), i)

AnalyzeRestartPatterns(scn, i) ==
    LET pods == ListPods(scn, i)
    IN  IF pods.err THEN [err |-> TRUE, patterns |-> <<>>]
        ELSE [err |-> FALSE, patterns |-> RestartsInPods(pods.items, i)]

----------------------------------------------------------------------------
(* AutoHealer.  Each fix yields [action, calls].                            *)

RECURSIVE FindPod(_, _, _)
FindPod(pods, ns, name) ==
    IF Head(pods).Namespace = ns /\ Head(pods).Name = name THEN Head(pods)
    ELSE FindPod(Tail(pods), ns, name)

RECURSIVE FindContainer(_, _)
FindContainer(cs, name) ==
    IF Head(cs).Name = name THEN Head(cs) ELSE FindContainer(Tail(cs), name)

ProbeOf(scn, cr) ==
    FindContainer(FindPod(scn.pods, cr.Namespace, cr.PodName).Containers,
                  cr.ContainerName).probe

HealingAction(type, cr, description, i) ==
    [ActionType |-> type, PodName |-> cr.PodName, Namespace |-> cr.Namespace,
     ContainerName |-> cr.ContainerName, Description |-> description,
     Status |-> "EXECUTING", Timestamp |-> i, Result |-> <<>>]

DryRunStillExecuting(action, would) ==
    [action |-> [action EXCEPT !.Result = <<would>>], calls |-> <<>>]

(* if h.dryRun { action.Status = "DRY_RUN"; action.Result = ...; return action } *)
DryRun(action, would) ==
    [action |-> [action EXCEPT !.Status = "DRY_RUN", !.Result = <<would>>],
     calls |-> <<>>]

TmpCleanupCommands ==
    <<"find /tmp -atime +1 -delete", "find /tmp -size +10M -delete",
      "find /tmp -name *.log -delete", "find /tmp -name core.* -delete",
      "find /tmp -name *.tmp -delete">>

DiskCleanupCommands ==
    <<"truncate /var/log/*.log", "find /var/log -name *.log.* -delete",
      "find / -name *.core -delete", "find /var/tmp -mtime +3 -delete">>

RECURSIVE UntilFailure(_, _)
UntilFailure(probe, commands) ==
    IF commands = <<>> THEN <<>>
    ELSE IF execInContainer(probe, Head(commands)).err THEN <<Head(commands)>>
    ELSE <<Head(commands)>> \o UntilFailure(probe, Tail(commands))

RunCleanupUntilFailure(scn, cr, action, commands) ==
    LET probe == ProbeOf(scn, cr)
        ran == UntilFailure(probe, commands)
    IN  [action |->
            [action EXCEPT
                !.Status = "COMPLETED",
                !.Result = [k \in 1..Len(ran) |->
                               IF execInContainer(probe, ran[k]).err
                               THEN "Failed" ELSE "Cleanup executed"]],
         calls |-> [k \in 1..Len(ran) |->
                       ExecCall(cr.Namespace, cr.PodName, cr.ContainerName, ran[k])]]

(* the loop shared by both cleanups: every command runs, failures are noted *)
RunCleanup(scn, cr, action, commands) ==
    LET probe == ProbeOf(scn, cr)
    IN  [action |->
            [action EXCEPT
                !.Status = "COMPLETED",
                !.Result = [k \in 1..Len(commands) |->
                               IF execInContainer(probe, commands[k]).err
                               THEN "Failed" ELSE "Cleanup executed"]],
         calls |-> [k \in 1..Len(commands) |->
                       ExecCall(cr.Namespace, cr.PodName, cr.ContainerName, commands[k])]]

cleanupTmpDirectory(scn, dry, cr, i) ==
    LET action == HealingAction("CLEANUP_TMP", cr, "Cleaning up /tmp directory", i)
    IN  IF dry THEN DryRun(action, "Would cleanup /tmp directory")
        ELSE RunCleanup(scn, cr, action, TmpCleanupCommands)

cleanupDiskSpace(scn, dry, cr, i) ==
    LET action == HealingAction("CLEANUP_DISK", cr, "Cleaning up disk space", i)
    IN  IF dry THEN DryRun(action, "Would cleanup disk space")
        ELSE RunCleanup(scn, cr, action, DiskCleanupCommands)

RelabelledAlways(networkFailed, deleteErr) == networkFailed

(* the else branch of the delete's error test *)
Relabelled(networkFailed, deleteErr) == networkFailed /\ ~deleteErr

fixNetworkConnectivity(scn, dry, cr, i) ==
    LET action == HealingAction("FIX_NETWORK", cr, "Fixing network connectivity", i)
        probe == ProbeOf(scn, cr)
        flush == execInContainer(probe, "ip route flush cache")
        ping == execInContainer(probe, "ping kubernetes.default")
        networkFailed == flush.err \/ HasNetworkFail(flush.out)
                         \/ ping.err \/ HasNetworkFail(ping.out)
        deleteErr == "deletePod" \in scn.faults
        results ==
            <<IF flush.err THEN "Command failed" ELSE flush.out.text,
              IF ping.err THEN "Command failed" ELSE ping.out.text>>
            \o (IF networkFailed
                THEN <<"Network still failing - attempting pod restart",
                       IF deleteErr THEN "Pod restart failed"
                       ELSE "Pod restarted successfully">>
                ELSE <<>>)
        escalated ==
            IF Relabelled(networkFailed, deleteErr)
            THEN [action EXCEPT !.ActionType = "RESTART_POD_NETWORK",
                                !.Description = "Restarted pod due to network failure"]
            ELSE action
    IN  IF dry THEN DryRun(action, "Would restart network services and pod if needed")
        ELSE [action |-> [escalated EXCEPT !.Status = "COMPLETED", !.Result = results],
              calls |-> <<ExecCall(cr.Namespace, cr.PodName, cr.ContainerName,
                                   "ip route flush cache"),
                          ExecCall(cr.Namespace, cr.PodName, cr.ContainerName,
                                   "ping kubernetes.default")>>
                        \o (IF networkFailed
                            THEN <<ApiCall("DeletePod", cr.Namespace, cr.PodName)>>
                            ELSE <<>>)]

fixDNSResolution(scn, dry, cr, i) ==
    LET action == HealingAction("FIX_DNS", cr, "Fixing DNS resolution", i)
        r == execInContainer(ProbeOf(scn, cr), "nslookup kubernetes.default (fix)")
    IN  IF dry THEN DryRun(action, "Would flush DNS cache and restart DNS")
        ELSE [action |-> [action EXCEPT
                             !.Status = "COMPLETED",
                             !.Result = <<IF r.err THEN "DNS command failed"
                                          ELSE r.out.text>>],
              calls |-> <<ExecCall(cr.Namespace, cr.PodName, cr.ContainerName,
                                   "nslookup kubernetes.default (fix)")>>]

(* the switch on check.CheckName: the fixes of one failed check *)
HealCheck(scn, dry, cr, check, i) ==
    IF check.Status = "OK" THEN <<>>
    ELSE IF check.CheckName = "/tmp Directory" /\ contains(check.FixActions, "CLEANUP_TMP")
    THEN <<cleanupTmpDirectory(scn, dry, cr, i)>>
    ELSE IF check.CheckName = "Disk Space" /\ contains(check.FixActions, "CLEANUP_DISK")
    THEN <<cleanupDiskSpace(scn, dry, cr, i)>>
    ELSE IF check.CheckName = "Network Connectivity"
            /\ contains(check.FixActions, "CHECK_NETWORK")
    THEN <<fixNetworkConnectivity(scn, dry, cr, i)>>
    ELSE IF check.CheckName = "DNS Resolution" /\ contains(check.FixActions, "RESTART_DNS")
    THEN <<fixDNSResolution(scn, dry, cr, i)>>
    ELSE <<>>

RECURSIVE HealChecks(_, _, _, _, _)
HealChecks(scn, dry, cr, checks, i) ==
    IF checks = <<>> THEN <<>>
    ELSE HealCheck(scn, dry, cr, Head(checks), i)
         \o HealChecks(scn, dry, cr, Tail(checks), i)

RECURSIVE HealResults(_, _, _, _)
HealResults(scn, dry, crs, i) ==
    IF crs = <<>> THEN <<>>
    ELSE (IF Head(crs).NeedsAction
          THEN HealChecks(scn, dry, Head(crs), Head(crs).Checks, i)
          ELSE <<>>)
         \o HealResults(scn, dry, Tail(crs), i)

KeepFirst(h) == IF Len(h) > AuditCap THEN SubSeq(h, 1, AuditCap) ELSE h

KeepLast(h) == IF Len(h) > AuditCap THEN SubSeq(h, Len(h) - AuditCap + 1, Len(h)) ELSE h

Store(h, actions) == KeepLast(h \o actions)

(* HealContainerIssues: [actions, history, calls] *)
HealContainerIssues(scn, dry, h, crs, i) ==
    LET done == HealResults(scn, dry, crs, i)
        actions == [k \in 1..Len(done) |-> done[k].action]
    IN  [actions |-> actions,
         history |-> Store(h, actions),
         calls |-> Flatten([k \in 1..Len(done) |-> done[k].calls])]

----------------------------------------------------------------------------
(* ActionEngine *)

Count(counts, key) == IF key \in DOMAIN counts THEN counts[key] ELSE 0

(* the first deployment of the pod's namespace whose name starts the pod's *)
RECURSIVE FirstMatch(_, _, _)
FirstMatch(deps, k, pred) ==
    IF k > Len(deps) THEN 0
    ELSE IF deps[k].Namespace = pred.PodNamespace
            /\ Len(pred.PodName) > Len(deps[k].Name)
            /\ SubSeq(pred.PodName, 1, Len(deps[k].Name)) = deps[k].Name
    THEN k
    ELSE FirstMatch(deps, k + 1, pred)

(* scaleUpDeployment: [deployments, calls] *)
scaleUpDeployment(scn, dry, deps, pred) ==
    LET k == FirstMatch(deps, 1, pred)
        list == ApiCall("ListDeployments", pred.PodNamespace, <<>>)
    IN  IF dry THEN [deployments |-> deps, calls |-> <<>>]
        ELSE IF k = 0 THEN [deployments |-> deps, calls |-> <<list>>]
        ELSE [deployments |->
                 IF "updateDeployment" \in scn.faults THEN deps
                 ELSE [deps EXCEPT ![k].Replicas = @ + 1],
              calls |-> <<list, ApiCall("UpdateDeployment", pred.PodNamespace,
                                        deps[k].Name)>>]

restartPodAlways(scn, dry, deps, pred) ==
    [deployments |-> deps,
     calls |-> <<ApiCall("DeletePod", pred.PodNamespace, pred.PodName)>>]

restartPod(scn, dry, deps, pred) ==
    IF dry THEN [deployments |-> deps, calls |-> <<>>]
    ELSE [deployments |-> deps,
          calls |-> <<ApiCall("DeletePod", pred.PodNamespace, pred.PodName)>>]

investigatePod(scn, dry, deps, pred) ==
    [deployments |-> deps,
     calls |-> <<ApiCall("ListEvents", pred.PodNamespace, pred.PodName)>>]

(* the switch on pred.Action *)
Dispatch(scn, dry, deps, pred) ==
    IF pred.Action \in {"SCALE_UP_URGENT", "SCALE_UP"}
    THEN scaleUpDeployment(scn, dry, deps, pred)
    ELSE IF pred.Action \in {"RESTART_POD_URGENT", "RESTART_POD"}
    THEN restartPod(scn, dry, deps, pred)
    ELSE IF pred.Action = "INVESTIGATE_RESTARTS"
    THEN investigatePod(scn, dry, deps, pred)
    ELSE [deployments |-> deps, calls |-> <<>>]

CapNever(counts, key) == FALSE

CapReached(counts, key) == Count(counts, key) >= MaxActions

NotIncremented(counts, key) == counts

(* a.actionCounts[key]++ *)
Incremented(counts, key) ==
    [k \in DOMAIN counts \cup {key} |->
        IF k = key THEN Count(counts, key) + 1 ELSE counts[k]]

(* what ExecuteActions prints for one prediction: the skip line, or the action *)
(* it ran, here with the cluster calls that action issued                      *)
LogLine(key, pred, skipped, issued) ==
    [key |-> key, action |-> pred.Action, skipped |-> skipped, calls |-> issued]

(* ExecuteActions: acc is [counts, deployments, calls, log] *)
RECURSIVE ExecuteActions(_, _, _, _)
ExecuteActions(scn, dry, acc, preds) ==
    IF preds = <<>> THEN acc
    ELSE LET pred == Head(preds)
             key == PodKey(pred.PodNamespace, pred.PodName)
             d == Dispatch(scn, dry, acc.deployments, pred)
         IN  IF CapReached(acc.counts, key)
             THEN ExecuteActions(scn, dry,
                      [acc EXCEPT !.log = Append(@, LogLine(key, pred, TRUE, <<>>))],
                      Tail(preds))
             ELSE ExecuteActions(scn, dry,
                      [counts |-> Incremented(acc.counts, key),
                       deployments |-> d.deployments,
                       calls |-> acc.calls \o d.calls,
                       log |-> Append(acc.log, LogLine(key, pred, FALSE, d.calls))],
                      Tail(preds))

----------------------------------------------------------------------------
(* The process environment and the HTTP surface's last response *)

Environment(dry) == [HEALER_DRY_RUN |-> dry]

NoEnvironment == Environment("")

NothingServed == [endpoint |-> ""]

----------------------------------------------------------------------------
(* main: the monitoring loop, one action per call of the loop body *)

NoLocals ==
    /\ metrics = <<>>
    /\ stuckContainers = <<>>
    /\ containerChecks = <<>>
    /\ restartPatterns = <<>>
    /\ healingActions = <<>>
    /\ predictions = <<>>

FreshEngines ==
    /\ podHistory = <<>>
    /\ diagHistory = <<>>
    /\ actionCounts = <<>>
    /\ healerHistory = <<>>
    /\ deployments = InitialDeployments
    /\ calls = <<>>
    /\ inserted = <<>>
    /\ appended = <<>>
    /\ engineLog = <<>>

Init ==
    /\ cluster \in Scenarios
    /\ lastTick = MaxTicks
    /\ dryRun \in BOOLEAN
    /\ environ = NoEnvironment
    /\ served = NothingServed
    /\ tick = 1
    /\ pc = "collect"
    /\ NoLocals
    /\ FreshEngines

(* col.GetAllPodMetrics fails: sleep and continue with the next i *)
CollectFailsOn ==
    /\ pc = "collect"
    /\ tick <= lastTick
    /\ GetAllPodMetrics(cluster, tick).err
    /\ metrics' = <<>>
    /\ pc' = "diagnose"
    /\ UNCHANGED <<config, served, tick, stuckContainers, containerChecks, restartPatterns,
                   healingActions, predictions, podHistory, diagHistory, actionCounts,
                   healerHistory, deployments, calls, inserted, appended, engineLog>>

CollectFails ==
    /\ pc = "collect"
    /\ tick <= lastTick
    /\ GetAllPodMetrics(cluster, tick).err
    /\ tick' = tick + 1
    /\ UNCHANGED <<config, served, pc, locals, podHistory, diagHistory, actionCounts,
                   healerHistory, deployments, calls, inserted, appended, engineLog>>

Collect ==
    /\ pc = "collect"
    /\ tick <= lastTick
    /\ ~GetAllPodMetrics(cluster, tick).err
    /\ metrics' = GetAllPodMetrics(cluster, tick).metrics
    /\ pc' = "diagnose"
    /\ UNCHANGED <<config, served, tick, stuckContainers, containerChecks, restartPatterns,
                   healingActions, predictions, podHistory, diagHistory, actionCounts,
                   healerHistory, deployments, calls, inserted, appended, engineLog>>

(* exec.Stream is given no context and no timeout: the first exec into a *)
(* container whose stream never ends does not return                     *)
ExecHangs(scn, i) ==
    LET pods == ListPods(scn, i)
    IN  /\ ~pods.err
        /\ \E k \in DOMAIN pods.items :
              /\ pods.items[k].Phase = "Running"
              /\ ~StuckSkips(pods.items[k])
              /\ \E c \in DOMAIN pods.items[k].Containers :
                    pods.items[k].Containers[c].probe.hangs

(* DiagnoseStuckContainers, RunContainerChecks, AnalyzeRestartPatterns *)
Diagnose ==
    /\ pc = "diagnose"
    /\ ~ExecHangs(cluster, tick)
    /\ LET stuck == DiagnoseStuckContainers(cluster, diagHistory, tick)
           checks == RunContainerChecks(cluster, tick)
           restarts == AnalyzeRestartPatterns(cluster, tick)
       IN  /\ stuckContainers' = stuck.results
           /\ diagHistory' = stuck.history
           /\ containerChecks' = checks.results
           /\ restartPatterns' = restarts.patterns
           /\ calls' = calls \o stuck.calls \o checks.calls
    /\ pc' = "heal"
    /\ UNCHANGED <<config, served, tick, metrics, healingActions, predictions, podHistory,
                   actionCounts, healerHistory, deployments, inserted, appended,
                   engineLog>>

(* if len(containerChecks) > 0 { healingActions = HealContainerIssues(...) } *)
Heal ==
    /\ pc = "heal"
    /\ LET healed == HealContainerIssues(cluster, dryRun, healerHistory,
                                         containerChecks, tick)
       IN  IF Len(containerChecks) > 0
           THEN /\ healingActions' = healed.actions
                /\ healerHistory' = healed.history
                /\ calls' = calls \o healed.calls
                /\ appended' = appended \o healed.actions
           ELSE /\ healingActions' = <<>>
                /\ UNCHANGED <<healerHistory, calls, appended>>
    /\ pc' = "predict"
    /\ UNCHANGED <<config, served, tick, metrics, stuckContainers, containerChecks,
                   restartPatterns, predictions, podHistory, diagHistory, actionCounts,
                   deployments, inserted, engineLog>>

(* pred.UpdateHistory(metrics); predictions := pred.PredictIssues(metrics) *)
Predict ==
    /\ pc = "predict"
    /\ podHistory' = UpdateHistory(podHistory, metrics)
    /\ inserted' = RecordInserted(inserted, metrics)
    /\ predictions' = PredictIssues(podHistory', metrics)
    /\ pc' = "execute"
    /\ UNCHANGED <<config, served, tick, metrics, stuckContainers, containerChecks,
                   restartPatterns, healingActions, diagHistory, actionCounts,
                   healerHistory, deployments, calls, appended, engineLog>>

(* if len(predictions) > 0 { actionEngine.ExecuteActions(predictions) } *)
Execute ==
    /\ pc = "execute"
    /\ LET done == ExecuteActions(cluster, dryRun,
                                  [counts |-> actionCounts, deployments |-> deployments,
                                   calls |-> <<>>, log |-> <<>>],
                                  predictions)
       IN  /\ actionCounts' = done.counts
           /\ deployments' = done.deployments
           /\ calls' = calls \o done.calls
           /\ engineLog' = engineLog \o done.log
    /\ pc' = "sleep"
    /\ UNCHANGED <<config, served, tick, locals, podHistory, diagHistory, healerHistory,
                   inserted, appended>>

(* time.Sleep(30 * time.Second); i++ *)
Sleep ==
    /\ pc = "sleep"
    /\ tick' = tick + 1
    /\ pc' = "collect"
    /\ UNCHANGED <<config, served, locals, podHistory, diagHistory, actionCounts,
                   healerHistory, deployments, calls, inserted, appended, engineLog>>

Next ==
    \/ CollectFails
    \/ Collect
    \/ Diagnose
    \/ Heal
    \/ Predict
    \/ Execute
    \/ Sleep

Spec == Init /\ [][Next]_vars

----------------------------------------------------------------------------
(* The loop over a long run of a quiet cluster, one pod of which is missing *)
(* from the listing at up to MaxAbsent ticks                                *)

(* absences at the start of the run, in its middle and at its end *)
AwayTicks == {1, 2, MaxUpdates \div 2, MaxUpdates - 1, MaxUpdates}

AwaySets == {a \in SUBSET AwayTicks : Cardinality(a) <= MaxAbsent}

HistoryScenarios ==
    { Scenario(<<SystemPods[1],
                 UserPod(S_web1, "Running", 0, 0, 0, Healthy),
                 [UserPod(S_web2, "Running", 0, 120, 0, Healthy) EXCEPT !.Away = a]>>,
               f) :
        a \in AwaySets, f \in {{}, {"listPods"}} }

InitHistory ==
    /\ cluster \in HistoryScenarios
    /\ lastTick = MaxUpdates
    /\ dryRun = FALSE
    /\ environ = NoEnvironment
    /\ served = NothingServed
    /\ tick = 1
    /\ pc = "collect"
    /\ NoLocals
    /\ FreshEngines

SpecHistory == InitHistory /\ [][Next]_vars

LastOf(s, n) == SubSeq(s, Len(s) - Min(Len(s), n) + 1, Len(s))

(* C1: after any sequence of UpdateHistory calls every key's history holds at *)
(* most 20 observations and is exactly the most recent min(n, 20)             *)
(* observations inserted for that key, in insertion order.                    *)
HistoryIsRecentWindow ==
    /\ DOMAIN podHistory = DOMAIN inserted
    /\ \A key \in DOMAIN inserted :
          /\ Len(podHistory[key]) <= HistoryCap
          /\ podHistory[key] = LastOf(inserted[key], HistoryCap)

(* a key has received more observations than the ring holds, another fewer *)
HistoryEvicted ==
    \E k1, k2 \in DOMAIN inserted :
        /\ Len(inserted[k1]) > HistoryCap + 1
        /\ Len(inserted[k2]) < Len(inserted[k1])
        /\ Len(podHistory[k2]) = HistoryCap

----------------------------------------------------------------------------
(* The loop over a cluster whose containers fail every check at every tick *)

SickPod(name) ==
    Pod(S_default, name, "Running",
        <<Container("app", 0, NoExit, Unhealthy),
          Container("sidecar", 0, NoExit, Unhealthy)>>,
        240, 0, 0)

AuditScenarios ==
    { Scenario(<<SickPod(S_web1), SickPod(S_web2)>> \o more, f) :
        more \in {<<>>, <<SickPod(S_web \o <<"-", "3">>)>>},
        f \in {{}, {"listPods"}, {"deletePod"}} }

InitAudit ==
    /\ cluster \in AuditScenarios
    /\ lastTick = MaxAuditTicks
    /\ dryRun \in BOOLEAN
    /\ environ = NoEnvironment
    /\ served = NothingServed
    /\ tick = 1
    /\ pc = "collect"
    /\ NoLocals
    /\ FreshEngines

SpecAudit == InitAudit /\ [][Next]_vars

(* C4: after every completed HealContainerIssues call the audit log holds at *)
(* most 100 entries, they are the most recently appended entries in dispatch *)
(* order, and their timestamps are non-decreasing.                           *)
AuditIsRecentWindow ==
    /\ Len(healerHistory) <= AuditCap
    /\ healerHistory = LastOf(appended, AuditCap)
    /\ \A k \in 1..(Len(healerHistory) - 1) :
          healerHistory[k].Timestamp <= healerHistory[k + 1].Timestamp

(* more than 100 actions were stored and the cut fell inside one call's batch *)
AuditEvicted ==
    /\ Len(appended) > AuditCap
    /\ Len(healingActions) > 0
    /\ (Len(appended) - AuditCap) % Len(healingActions) # 0
    /\ healerHistory[1].Timestamp < healerHistory[AuditCap].Timestamp

----------------------------------------------------------------------------
(* ActionEngine: the cap of MaxActions actions per pod *)

Keys == {PodKey(p.Namespace, p.Name) : p \in {cluster.pods[k] : k \in DOMAIN cluster.pods}}

Entries(log, keep(_)) == {k \in DOMAIN log : keep(log[k])}

RanFor(key) == Entries(engineLog, LAMBDA e : e.key = key /\ ~e.skipped)

(* the lines ExecuteActions added in the step *)
NewLines == SubSeq(engineLog', Len(engineLog) + 1, Len(engineLog'))

CountsBounded ==
    /\ \A key \in DOMAIN actionCounts :
          /\ actionCounts[key] \in 0..MaxActions
          /\ Cardinality(RanFor(key)) = actionCounts[key]
    /\ \A k \in DOMAIN engineLog :
          /\ engineLog[k].key \in DOMAIN actionCounts
          /\ engineLog[k].skipped => engineLog[k].calls = <<>>

CountsStep ==
    /\ \A key \in DOMAIN actionCounts :
          /\ key \in DOMAIN actionCounts'
          /\ actionCounts'[key] >= actionCounts[key]
          /\ actionCounts[key] = MaxActions =>
                /\ actionCounts'[key] = MaxActions
                /\ \A k \in DOMAIN NewLines :
                      NewLines[k].key = key => NewLines[k].skipped
    /\ pc = "execute" =>
          calls' = calls \o Flatten([k \in DOMAIN NewLines |-> NewLines[k].calls])

(* C2: for every pod key ExecuteActions dispatches at most 3 actions over the *)
(* whole run: actionCounts[key] stays in 0..3 and never decreases, and a      *)
(* prediction arriving when the counter is already 3 is skipped with no       *)
(* cluster call and the counter left unchanged.                               *)
ActionCapHolds == []CountsBounded /\ [][CountsStep]_vars

(* a key has had three actions run, one of them calling the cluster, and a *)
(* further prediction for it skipped                                       *)
ActionCapReached ==
    \E key \in DOMAIN actionCounts :
        /\ actionCounts[key] = MaxActions
        /\ \E k \in RanFor(key) : engineLog[k].calls # <<>>
        /\ \E k \in DOMAIN engineLog : engineLog[k].key = key /\ engineLog[k].skipped

----------------------------------------------------------------------------
(* The predictor on its own: one UpdateHistory and PredictIssues over a      *)
(* history of up to MaxLen observations of one pod, the last of which is the *)
(* tick's metric.                                                            *)

(* usage in tenths of a percent: a start value and, per tick, a rise or none *)
Ramps(len, starts, rises) ==
    { [k \in 1..len |-> start + rise * Cardinality({j \in 1..(k - 1) : up[j]})] :
        start \in starts, rise \in rises, up \in [1..(len - 1) -> BOOLEAN] }

Observations(len) ==
    { [k \in 1..len |->
          PodMetrics(S_default, S_web1, cpu[k], mem[k],
                     IF k = len THEN status ELSE "Running",
                     IF k = len THEN restarts ELSE 0, 240 + k)] :
        cpu \in Ramps(len, {0, 120}, {0}) \cup
                {[k \in 1..len |-> start + 2 * (k - 1)] : start \in {0, 160}},
        mem \in Ramps(len, {0, 120}, {1, 5}),
        status \in {"Running", "Pending"},
        restarts \in {0, 3} }

InitPredict ==
    /\ cluster = Scenario(<<UserPod(S_web1, "Running", 0, 0, 0, Healthy)>>, {})
    /\ lastTick \in 1..MaxLen
    /\ dryRun = FALSE
    /\ environ = NoEnvironment
    /\ served = NothingServed
    /\ tick = lastTick
    /\ pc = "predict"
    /\ \E obs \in Observations(lastTick) :
          /\ metrics = <<obs[lastTick]>>
          /\ podHistory =
                IF lastTick = 1 THEN <<>>
                ELSE [k \in {PodKey(S_default, S_web1)} |-> SubSeq(obs, 1, lastTick - 1)]
    /\ inserted = podHistory
    /\ stuckContainers = <<>>
    /\ containerChecks = <<>>
    /\ restartPatterns = <<>>
    /\ healingActions = <<>>
    /\ predictions = <<>>
    /\ diagHistory = <<>>
    /\ actionCounts = <<>>
    /\ healerHistory = <<>>
    /\ deployments = InitialDeployments
    /\ calls = <<>>
    /\ appended = <<>>
    /\ engineLog = <<>>

SpecPredict == InitPredict /\ [][Predict]_vars

MemoryForecast(p) == p.TimeToFailure.cause = "Memory leak"

(* C6: every Prediction whose time-to-failure is set with cause memory and *)
(* fewer than 12 hours to failure has final risk CRITICAL.                 *)
MemoryLeakIsCritical ==
    \A k \in DOMAIN predictions :
        MemoryForecast(predictions[k]) /\ FracLT(predictions[k].TimeToFailure.hours, 12)
            => predictions[k].Risk = "CRITICAL"

(* a prediction with a memory forecast under 12 hours and no other rule *)
MemoryLeakForecast ==
    \E k \in DOMAIN predictions :
        /\ MemoryForecast(predictions[k])
        /\ FracLT(predictions[k].TimeToFailure.hours, 12)
        /\ predictions[k].Score = 60

NotRunning == {k \in DOMAIN metrics : metrics[k].Status # "Running"}

PredictionOf(m) ==
    {k \in DOMAIN predictions :
        predictions[k].PodName = m.Name /\ predictions[k].PodNamespace = m.Namespace}

(* C7: every observed pod whose phase is not Running yields a Prediction in *)
(* that tick, and that Prediction's final risk is CRITICAL.                 *)
NotRunningIsCritical ==
    pc = "execute" =>
        \A k \in NotRunning :
            /\ PredictionOf(metrics[k]) # {}
            /\ \A j \in PredictionOf(metrics[k]) : predictions[j].Risk = "CRITICAL"

(* a pod that is not running was analysed and reported *)
NotRunningReported ==
    /\ pc = "execute"
    /\ \E k \in NotRunning : PredictionOf(metrics[k]) # {}

----------------------------------------------------------------------------
(* The audit log and the two engines *)

KeyOf(record) == PodKey(record.Namespace, record.PodName)

(* the check-driven healing actions carried out against a pod *)
CheckDrivenFor(key) ==
    Entries(appended, LAMBDA a : KeyOf(a) = key /\ a.Status # "DRY_RUN")

(* C3: the cap of 3 also covers check-driven remediations: for every pod key *)
(* the check-driven healing actions executed plus the prediction-driven      *)
(* actions never exceed 3, and each check-driven action increments that      *)
(* key's counter by 1.                                                       *)
ChecksCountTowardsCap ==
    \A key \in Keys :
        /\ Cardinality(CheckDrivenFor(key)) + Cardinality(RanFor(key)) <= MaxActions
        /\ Count(actionCounts, key)
              = Cardinality(CheckDrivenFor(key)) + Cardinality(RanFor(key))

(* a pod has had more than 3 check-driven actions and its counter never moved *)
ChecksBeyondCap ==
    \E key \in Keys :
        /\ Cardinality(CheckDrivenFor(key)) > MaxActions
        /\ Count(actionCounts, key) = 0

NewRan == Entries(NewLines, LAMBDA e : ~e.skipped)

(* C5: every action the Action Engine dispatches appends one HealingAction *)
(* record to the audit log the HTTP surface reads; a skipped prediction    *)
(* appends none.                                                           *)
EveryDispatchIsAudited ==
    [][pc = "execute" =>
          /\ Len(appended') = Len(appended) + Cardinality(NewRan)
          /\ healerHistory' = LastOf(appended', AuditCap)]_vars

(* three RESTART_POD decisions for one key were carried out, a fourth was *)
(* skipped, and the audit log is empty                                    *)
RestartsNotAudited ==
    \E key \in Keys :
        /\ Cardinality(Entries(engineLog,
               LAMBDA e : e.key = key /\ ~e.skipped /\ e.action = "RESTART_POD"
                          /\ e.calls # <<>>)) = MaxActions
        /\ \E k \in DOMAIN engineLog : engineLog[k].key = key /\ engineLog[k].skipped
        /\ healerHistory = <<>>

----------------------------------------------------------------------------
(* System namespaces *)

SystemNamespace(ns) == HasPrefix(ns, S_kube) \/ HasPrefix(ns, S_healer)

NoneIn(s, ns(_)) == \A k \in DOMAIN s : ~SystemNamespace(ns(s[k]))

(* C8: a pod whose namespace has prefix kube- or healer- never appears in any *)
(* PodObservation, Prediction, CheckReport, StuckReport or RestartPattern,    *)
(* and no probe or remediation is ever executed against it.                   *)
SystemPodsUntouched ==
    /\ NoneIn(metrics, LAMBDA m : m.Namespace)
    /\ \A key \in DOMAIN podHistory : ~SystemNamespace(key[1])
    /\ NoneIn(predictions, LAMBDA p : p.PodNamespace)
    /\ NoneIn(containerChecks, LAMBDA c : c.Namespace)
    /\ NoneIn(stuckContainers, LAMBDA r : r.Namespace)
    /\ NoneIn(restartPatterns, LAMBDA r : r.Namespace)
    /\ NoneIn(healingActions, LAMBDA a : a.Namespace)
    /\ NoneIn(healerHistory, LAMBDA a : a.Namespace)
    /\ NoneIn(engineLog, LAMBDA e : e.key[1])
    /\ NoneIn(calls, LAMBDA c : c.ns)
    /\ \A k \in DOMAIN deployments :
          SystemNamespace(deployments[k].Namespace)
              => deployments[k] = InitialDeployments[k]

(* the listing held system pods while a pod next to them was probed, healed *)
(* and acted on                                                             *)
SystemPodsListed ==
    /\ \E k \in DOMAIN cluster.pods : SystemNamespace(cluster.pods[k].Namespace)
    /\ pc = "sleep"
    /\ calls # <<>>
    /\ healingActions # <<>>
    /\ \E k \in DOMAIN engineLog : ~engineLog[k].skipped

----------------------------------------------------------------------------
(* Dry-run mode *)

MutatingCommands ==
    {TmpCleanupCommands[k] : k \in DOMAIN TmpCleanupCommands}
    \cup {DiskCleanupCommands[k] : k \in DOMAIN DiskCleanupCommands}
    \cup {"ip route flush cache"}

Mutating(call) ==
    \/ call.op \in {"DeletePod", "UpdateDeployment"}
    \/ call.op = "Exec" /\ call.cmd \in MutatingCommands

(* C9: when the engines are constructed in dry-run mode no sequence of ticks *)
(* issues a pod delete, a deployment replica update or a cleanup/route-flush *)
(* Exec pipeline, for prediction-driven and check-driven actions alike.      *)
DryRunMutatesNothing ==
    dryRun =>
        /\ \A k \in DOMAIN calls : ~Mutating(calls[k])
        /\ deployments = InitialDeployments

(* in dry-run mode both engines have had actions to carry out: a /tmp *)
(* cleanup, a network fix and a scale-up                              *)
DryRunExercised ==
    /\ dryRun
    /\ \E k \in DOMAIN appended : appended[k].ActionType = "CLEANUP_TMP"
    /\ \E k \in DOMAIN appended : appended[k].ActionType = "FIX_NETWORK"
    /\ \E k \in DOMAIN engineLog :
          ~engineLog[k].skipped /\ engineLog[k].action = "SCALE_UP_URGENT"

PredictionDriven == {"SCALE_UP_URGENT", "SCALE_UP", "RESTART_POD_URGENT", "RESTART_POD"}

(* the audit record's type names the change the prediction asked for *)
Describes(record, line) ==
    /\ KeyOf(record) = line.key
    /\ record.Status = "DRY_RUN"
    /\ \/ record.ActionType = line.action
       \/ line.action \in {"SCALE_UP_URGENT", "SCALE_UP"}
          /\ record.ActionType \in {"SCALE_UP_URGENT", "SCALE_UP"}
       \/ line.action \in {"RESTART_POD_URGENT", "RESTART_POD"}
          /\ record.ActionType \in {"RESTART_POD_URGENT", "RESTART_POD"}

(* C10: in dry-run mode every would-be action, prediction-driven (scale-up, *)
(* pod restart) as well as check-driven, produces an audit record with      *)
(* status DRY_RUN describing the intended change.                           *)
DryRunRecordsEverything ==
    dryRun =>
        /\ \A k \in DOMAIN appended : appended[k].Status = "DRY_RUN"
        /\ healerHistory = LastOf(appended, AuditCap)
        /\ \A k \in DOMAIN engineLog :
              ~engineLog[k].skipped /\ engineLog[k].action \in PredictionDriven
                  => \E j \in DOMAIN healerHistory :
                         Describes(healerHistory[j], engineLog[k])

(* in dry-run mode a restart was due and left no record, while a check-driven *)
(* fix of the same run left its DRY_RUN record                                *)
DryRunRestartUnrecorded ==
    /\ dryRun
    /\ \E k \in DOMAIN engineLog :
          /\ ~engineLog[k].skipped
          /\ engineLog[k].action = "RESTART_POD"
          /\ \A j \in DOMAIN healerHistory : ~Describes(healerHistory[j], engineLog[k])
    /\ \E j \in DOMAIN healerHistory : healerHistory[j].Status = "DRY_RUN"

----------------------------------------------------------------------------
(* The predictor and the action engine on one pod: a history of MaxLen     *)
(* observations, then UpdateHistory, PredictIssues and ExecuteActions, in  *)
(* either mode, with and without a deployment the pod belongs to, and with *)
(* the delete or the update failing.                                       *)

NoDeploymentOfPod == <<InitialDeployments[2]>>

EngineSetups ==
    { [faults |-> {}, deployments |-> InitialDeployments],
      [faults |-> {"deletePod"}, deployments |-> InitialDeployments],
      [faults |-> {"updateDeployment"}, deployments |-> InitialDeployments],
      [faults |-> {}, deployments |-> NoDeploymentOfPod] }

InitEngine ==
    /\ \E setup \in EngineSetups :
          /\ cluster = Scenario(<<UserPod(S_web1, "Running", 0, 0, 0, Healthy)>>,
                                setup.faults)
          /\ deployments = setup.deployments
    /\ lastTick = MaxLen
    /\ dryRun \in BOOLEAN
    /\ environ = NoEnvironment
    /\ served = NothingServed
    /\ tick = lastTick
    /\ pc = "predict"
    /\ \E obs \in Observations(lastTick) :
          /\ metrics = <<obs[lastTick]>>
          /\ podHistory =
                [k \in {PodKey(S_default, S_web1)} |-> SubSeq(obs, 1, lastTick - 1)]
    /\ inserted = podHistory
    /\ stuckContainers = <<>>
    /\ containerChecks = <<>>
    /\ restartPatterns = <<>>
    /\ healingActions = <<>>
    /\ predictions = <<>>
    /\ diagHistory = <<>>
    /\ actionCounts = <<>>
    /\ healerHistory = <<>>
    /\ calls = <<>>
    /\ appended = <<>>
    /\ engineLog = <<>>

NextEngine ==
    \/ Predict
    \/ Execute

SpecEngine == InitEngine /\ [][NextEngine]_vars

PredictionKey(p) == PodKey(p.PodNamespace, p.PodName)

(* C11: for every prediction that is not skipped by the cap, ExecuteActions *)
(* increments that key's counter by exactly 1 after dispatch, whether the   *)
(* action succeeded, failed, was monitor-only, found no matching deployment *)
(* or ran in dry-run mode; a skipped prediction leaves the counter alone.   *)
CounterAdvancesByOne ==
    [][pc = "execute" =>
          /\ \A k \in DOMAIN predictions :
                LET key == PredictionKey(predictions[k])
                IN  Count(actionCounts', key) =
                        IF Count(actionCounts, key) >= MaxActions
                        THEN Count(actionCounts, key)
                        ELSE Count(actionCounts, key) + 1
          /\ \A key \in DOMAIN actionCounts' :
                (\A k \in DOMAIN predictions : PredictionKey(predictions[k]) # key)
                    => Count(actionCounts', key) = Count(actionCounts, key)]_vars

(* the deployment update was issued and failed, the replicas are as before, *)
(* and the pod's counter stands at 1                                        *)
CountedAfterFailure ==
    /\ pc = "sleep"
    /\ "updateDeployment" \in cluster.faults
    /\ \E k \in DOMAIN calls : calls[k].op = "UpdateDeployment"
    /\ deployments = InitialDeployments
    /\ \E k \in DOMAIN predictions : Count(actionCounts, PredictionKey(predictions[k])) = 1

----------------------------------------------------------------------------
(* The HTTP surface.  Its handlers run on the server's goroutines while the *)
(* loop runs on main's: here HealContainerIssues stores its actions in the  *)
(* two assignments of the code, and a handler may read between them.        *)

RecentCap == 10
CriticalAbove == 5

GetHealingHistory(h) == h

IsFailedOnly(action) == action.Status = "FAILED"

IsCritical(action) ==
    action.ActionType = "RESTART_POD_NETWORK" \/ action.Status = "FAILED"

handleStatus(h) ==
    LET hist == GetHealingHistory(h)
        start == IF Len(hist) > RecentCap THEN Len(hist) - RecentCap ELSE 0
        recentActions == SubSeq(hist, start + 1, Len(hist))
        criticalCount ==
            Cardinality({k \in DOMAIN recentActions : IsCritical(recentActions[k])})
    IN  [endpoint |-> "status",
         total_actions |-> Len(hist),
         recent_actions |-> recentActions,
         system_health |-> IF criticalCount > CriticalAbove THEN "CRITICAL"
                           ELSE IF criticalCount > 0 THEN "WARNING"
                           ELSE "HEALTHY"]

handleActions(h) ==
    LET hist == GetHealingHistory(h)
    IN  [endpoint |-> "actions", total_actions |-> Len(hist), actions |-> hist]

HandleStatus ==
    /\ served' = handleStatus(healerHistory)
    /\ UNCHANGED <<config, tick, pc, locals, podHistory, diagHistory, actionCounts,
                   healerHistory, deployments, calls, inserted, appended, engineLog>>

HandleActions ==
    /\ served' = handleActions(healerHistory)
    /\ UNCHANGED <<config, tick, pc, locals, podHistory, diagHistory, actionCounts,
                   healerHistory, deployments, calls, inserted, appended, engineLog>>

(* HealContainerIssues up to h.history = append(h.history, actions...) *)
HealAppend ==
    /\ pc = "heal"
    /\ LET healed == HealContainerIssues(cluster, dryRun, healerHistory,
                                         containerChecks, tick)
       IN  IF Len(containerChecks) > 0
           THEN /\ healerHistory' = healerHistory \o healed.actions
                /\ calls' = calls \o healed.calls
                /\ appended' = appended \o healed.actions
                /\ pc' = "trim"
                /\ UNCHANGED healingActions
           ELSE /\ healingActions' = <<>>
                /\ pc' = "predict"
                /\ UNCHANGED <<healerHistory, calls, appended>>
    /\ UNCHANGED <<config, served, tick, metrics, stuckContainers, containerChecks,
                   restartPatterns, predictions, podHistory, diagHistory, actionCounts,
                   deployments, inserted, engineLog>>

(* the trim to the last 100 entries, and the return of the tick's actions *)
HealTrim ==
    /\ pc = "trim"
    /\ healerHistory' = KeepLast(healerHistory)
    /\ healingActions' = HealContainerIssues(cluster, dryRun, healerHistory,
                                             containerChecks, tick).actions
    /\ pc' = "predict"
    /\ UNCHANGED <<config, served, tick, metrics, stuckContainers, containerChecks,
                   restartPatterns, predictions, podHistory, diagHistory, actionCounts,
                   deployments, calls, inserted, appended, engineLog>>

NetDown == [Healthy EXCEPT !.netInt = FALSE, !.pingOk = FALSE]
TmpFull == [Healthy EXCEPT !.tmp = 96]

ApiPod(name, probe) ==
    Pod(S_default, name, "Running",
        <<Container("app", 0, NoExit, probe), Container("sidecar", 0, NoExit, probe)>>,
        240, 0, 0)

ApiScenarios ==
    { Scenario(<<SickPod(S_web1), SickPod(S_web2)>>, {}),
      Scenario(<<ApiPod(S_web1, NetDown), ApiPod(S_web2, NetDown)>>, {}),
      Scenario(<<ApiPod(S_web1, NetDown), ApiPod(S_web2, TmpFull)>>, {}),
      Scenario(<<ApiPod(S_web1, NetDown), ApiPod(S_web2, NetDown),
                 UserPod(S_bot, "Running", 0, 0, 0, TmpFull)>>, {}),
      Scenario(<<ApiPod(S_web1, TmpFull), ApiPod(S_web2, TmpFull)>>, {}),
      Scenario(<<ApiPod(S_web1, NetDown), ApiPod(S_web2, NetDown)>>, {"deletePod"}),
      Scenario(<<SickPod(S_web1)>>, {"listPods"}) }

InitApi ==
    /\ cluster \in ApiScenarios
    /\ lastTick = MaxAuditTicks
    /\ dryRun = FALSE
    /\ environ = NoEnvironment
    /\ served = NothingServed
    /\ tick = 1
    /\ pc = "collect"
    /\ NoLocals
    /\ FreshEngines

NextApi ==
    \/ CollectFails
    \/ Collect
    \/ Diagnose
    \/ HealAppend
    \/ HealTrim
    \/ Predict
    \/ Execute
    \/ Sleep
    \/ HandleStatus
    \/ HandleActions

SpecApi == InitApi /\ [][NextApi]_vars

CriticalIn(recent) ==
    Cardinality({k \in DOMAIN recent :
        recent[k].Status = "FAILED" \/ recent[k].ActionType = "RESTART_POD_NETWORK"})

HealthOf(count) ==
    IF count > 5 THEN "CRITICAL" ELSE IF count >= 1 THEN "WARNING" ELSE "HEALTHY"

(* C12: GET /status reports system_health CRITICAL iff more than 5 of the *)
(* last min(10, n) audit entries are FAILED or RESTART_POD_NETWORK,       *)
(* WARNING iff 1 to 5 of them are, and HEALTHY otherwise.                 *)
StatusHealthIsRight ==
    /\ [](served.endpoint = "status" =>
             served.system_health = HealthOf(CriticalIn(served.recent_actions)))
    /\ [][served' # served /\ served'.endpoint = "status" =>
             /\ served'.recent_actions = LastOf(healerHistory, 10)
             /\ served'.total_actions = Len(healerHistory)]_vars

(* /status answered CRITICAL over ten recent entries of which some are not *)
(* restarts                                                                *)
StatusCritical ==
    /\ served.endpoint = "status"
    /\ served.system_health = "CRITICAL"
    /\ Len(served.recent_actions) = 10
    /\ CriticalIn(served.recent_actions) < 10

(* C16: a handler reading the audit log while a tick runs sees the log    *)
(* before a batch append or after append-and-evict, never in between: the *)
(* total_actions it reports is at most 100.                               *)
HandlerSeesBoundedLog ==
    served.endpoint \in {"status", "actions"} => served.total_actions <= AuditCap

(* /actions answered with the appended, not yet trimmed log *)
HandlerSawUntrimmedLog ==
    /\ served.endpoint = "actions"
    /\ Len(served.actions) > AuditCap
    /\ pc = "trim"
    /\ served.actions = healerHistory

FailedCall(call) ==
    \/ call.op = "DeletePod" /\ "deletePod" \in cluster.faults
    \/ call.op = "UpdateDeployment" /\ "updateDeployment" \in cluster.faults

FailureRecordedFor(call) ==
    \E k \in DOMAIN appended :
        /\ appended[k].Status = "FAILED"
        /\ appended[k].Namespace = call.ns
        /\ HasPrefix(appended[k].PodName, call.pod)

(* C13: when a pod delete or a deployment update returns an error, an audit *)
(* entry with status FAILED is recorded for it; a failed pod delete during  *)
(* network escalation leaves an entry whose final status is FAILED.         *)
FailuresAreAudited ==
    \A k \in DOMAIN calls : FailedCall(calls[k]) => FailureRecordedFor(calls[k])

(* the delete of the network escalation failed, and its entry is COMPLETED *)
FailedEscalationCompleted ==
    /\ \E k \in DOMAIN calls : calls[k].op = "DeletePod" /\ FailedCall(calls[k])
    /\ \E k \in DOMAIN appended :
          /\ appended[k].ActionType = "FIX_NETWORK"
          /\ contains(appended[k].Result, "Pod restart failed")
          /\ appended[k].Status = "COMPLETED"
    /\ \A k \in DOMAIN appended : appended[k].Status # "FAILED"

NetworkFixes(log) ==
    {k \in DOMAIN log : log[k].ActionType \in {"FIX_NETWORK", "RESTART_POD_NETWORK"}}

(* a diagnostic command of the fix errored or answered Network FAIL *)
EscalationTriggered(entry) ==
    \E k \in 1..2 : entry.Result[k] \in {"Command failed", "Network FAIL"}

DeletesOf(s, entry) ==
    Cardinality({k \in DOMAIN s :
        s[k].op = "DeletePod" /\ s[k].ns = entry.Namespace /\ s[k].pod = entry.PodName})

TriggeredFor(log, entry) ==
    Cardinality({k \in NetworkFixes(log) :
        /\ EscalationTriggered(log[k])
        /\ log[k].Namespace = entry.Namespace
        /\ log[k].PodName = entry.PodName})

(* what one run of the healer added to the audit log and to the API calls *)
HealerStep(typed(_)) ==
    pc = "heal" /\ ~dryRun =>
        LET fresh == SubSeq(appended', Len(appended) + 1, Len(appended'))
            issued == SubSeq(calls', Len(calls) + 1, Len(calls'))
        IN  \A k \in NetworkFixes(fresh) :
                /\ DeletesOf(issued, fresh[k]) = TriggeredFor(fresh, fresh[k])
                /\ typed(fresh[k])

TypedByTrigger(entry) ==
    entry.ActionType =
        IF EscalationTriggered(entry) THEN "RESTART_POD_NETWORK" ELSE "FIX_NETWORK"

TypedByDelete(entry) ==
    entry.ActionType =
        IF EscalationTriggered(entry) /\ "deletePod" \notin cluster.faults
        THEN "RESTART_POD_NETWORK" ELSE "FIX_NETWORK"

(* C14 as stated: not in dry-run, fixNetworkConnectivity issues a pod delete *)
(* iff a diagnostic command errored or reported Network FAIL; whenever that  *)
(* escalation triggers the entry has type RESTART_POD_NETWORK, and when it   *)
(* does not the entry stays FIX_NETWORK with no delete issued.               *)
EscalationRelabels == [][HealerStep(TypedByTrigger)]_vars

(* C14 amended: the delete is issued iff the escalation triggers; the entry *)
(* has type RESTART_POD_NETWORK iff the escalation triggers and the delete  *)
(* succeeds, and stays FIX_NETWORK otherwise.                               *)
EscalationRelabelsOnSuccess == [][HealerStep(TypedByDelete)]_vars

(* not in dry-run, the log holds a network fix that escalated, deleted the *)
(* pod and was relabelled                                                  *)
EscalationSeen ==
    /\ ~dryRun
    /\ \E k \in NetworkFixes(appended) :
          /\ appended[k].ActionType = "RESTART_POD_NETWORK"
          /\ EscalationTriggered(appended[k])
          /\ DeletesOf(calls, appended[k]) > 0

----------------------------------------------------------------------------
(* main: the engines as main constructs them, whatever the environment holds *)

DryRunOfMain(env) == FALSE

InitMain ==
    /\ cluster \in Scenarios
    /\ lastTick = MaxTicks
    /\ environ \in {Environment(""), Environment("true"), Environment("false")}
    /\ dryRun = DryRunOfMain(environ)
    /\ served = NothingServed
    /\ tick = 1
    /\ pc = "collect"
    /\ NoLocals
    /\ FreshEngines

SpecMain == InitMain /\ [][Next]_vars

(* C15: started with HEALER_DRY_RUN=true, the loop runs the Action Engine *)
(* and the check-driven healer in dry-run mode: no cluster mutation       *)
(* occurs and audit entries have status DRY_RUN.                          *)
EnvironmentSetsDryRun ==
    environ.HEALER_DRY_RUN = "true" =>
        /\ \A k \in DOMAIN calls : ~Mutating(calls[k])
        /\ deployments = InitialDeployments
        /\ \A k \in DOMAIN appended : appended[k].Status = "DRY_RUN"

(* started with HEALER_DRY_RUN=true, a pod was deleted, a deployment was *)
(* scaled and a cleanup was audited as COMPLETED                         *)
MutatedDespiteEnvironment ==
    /\ environ.HEALER_DRY_RUN = "true"
    /\ \E k \in DOMAIN calls : calls[k].op = "DeletePod"
    /\ deployments # InitialDeployments
    /\ \E k \in DOMAIN appended : appended[k].Status = "COMPLETED"

RestartTags == {"RESTART_POD", "RESTART_POD_URGENT", "RESTART_POD_PLANNED"}
ScaleUpTags == {"SCALE_UP", "SCALE_UP_URGENT", "SCALE_UP_PLANNED"}

DeletesThePod(line) ==
    \E k \in DOMAIN line.calls :
        /\ line.calls[k].op = "DeletePod"
        /\ PodKey(line.calls[k].ns, line.calls[k].pod) = line.key

HasDeploymentFor(line) ==
    \E d \in DOMAIN deployments :
        /\ deployments[d].Namespace = line.key[1]
        /\ HasPrefix(line.key[2], deployments[d].Name)

WritesTheDeployment(line) ==
    \E k \in DOMAIN line.calls :
        /\ line.calls[k].op = "UpdateDeployment"
        /\ line.calls[k].ns = line.key[1]
        /\ HasPrefix(line.key[2], line.calls[k].pod)

(* C17: dispatch is by action-tag prefix: not in dry-run, every dispatched *)
(* prediction whose tag starts with RESTART_POD results in a delete of     *)
(* that pod, and every one whose tag starts with SCALE_UP in a replicas+1  *)
(* write on the deployment whose name is a prefix of the pod name.         *)
DispatchIsByPrefix ==
    ~dryRun =>
        \A k \in DOMAIN engineLog :
            LET line == engineLog[k]
            IN  ~line.skipped =>
                    /\ line.action \in RestartTags => DeletesThePod(line)
                    /\ line.action \in ScaleUpTags /\ HasDeploymentFor(line)
                           => WritesTheDeployment(line)

(* not in dry-run, a RESTART_POD_PLANNED prediction was dispatched and no *)
(* call at all was issued for it                                          *)
PlannedRestartOnlyMonitored ==
    /\ ~dryRun
    /\ \E k \in DOMAIN engineLog :
          /\ engineLog[k].action = "RESTART_POD_PLANNED"
          /\ ~engineLog[k].skipped
          /\ engineLog[k].calls = <<>>
    /\ calls = <<>>

(* what analyzePodAdvanced returns for an observation of the tick *)
AnalysisOf(m) == analyzePodAdvanced(m, Lookup(podHistory, PodKey(m.Namespace, m.Name)))

Qualifies(result) == result.Score > 30 \/ result.TimeToFailure.cause # "N/A"

Points(issue) ==
    CASE issue \in {"CRITICAL CPU", "CRITICAL Memory"} -> 40
      [] issue \in {"HIGH CPU", "HIGH Memory"} -> 25
      [] issue = "CPU PREDICTION" -> 30
      [] issue = "MEMORY LEAK DETECTED" -> 35
      [] issue = "IMMEDIATE ACTION REQUIRED" -> 25
      [] issue = "Performance degradation detected over time" -> 20
      [] issue = "High restart count" -> 30
      [] issue = "Pod not running" -> 50
      [] OTHER -> 0

RECURSIVE PointsOf(_)
PointsOf(issues) ==
    IF issues = <<>> THEN 0 ELSE Points(Head(issues)) + PointsOf(Tail(issues))

(* the contributions triggered for an observation: one per issue, and 20 *)
(* more for a CPU forecast of less than 24 hours                         *)
Contributions(m, result) ==
    PointsOf(result.Issues)
    + (IF contains(result.Issues, "CPU PREDICTION")
          /\ (Pct(100) - m.CPUPercent) * result.CPUGrowthRate.den
                 < 24 * result.CPUGrowthRate.num
       THEN 20 ELSE 0)

BandOf(score) ==
    IF score >= 80 THEN <<"CRITICAL", 95>>
    ELSE IF score >= 60 THEN <<"HIGH", 90>>
    ELSE IF score >= 40 THEN <<"MEDIUM", 85>>
    ELSE IF score >= 20 THEN <<"LOW-MEDIUM", 80>>
    ELSE <<"LOW", 100>>

(* C19: for every observation and history the final score is min(100, sum *)
(* of the triggered contributions) and lies in 0..100; the final risk is  *)
(* a function of the score band only (>= 80 CRITICAL, >= 60 HIGH, >= 40   *)
(* MEDIUM, >= 20 LOW-MEDIUM, else LOW) and the confidence is 95, 90, 85,  *)
(* 80, 100 for those bands.                                               *)
ScoreIsCappedSum ==
    pc = "execute" =>
        \A k \in DOMAIN metrics :
            LET result == AnalysisOf(metrics[k])
                sum == Contributions(metrics[k], result)
            IN  /\ result.Score = IF sum > 100 THEN 100 ELSE sum
                /\ result.Score \in 0..100
                /\ <<result.Risk, result.Confidence>> = BandOf(result.Score)

(* an observation whose contributions exceed 100 was scored 100 *)
ScoreCapped ==
    /\ pc = "execute"
    /\ \E k \in DOMAIN metrics :
          /\ Contributions(metrics[k], AnalysisOf(metrics[k])) > 100
          /\ AnalysisOf(metrics[k]).Score = 100

ListingFails == pc = "collect" /\ tick <= lastTick /\ ListPods(cluster, tick).err

ListingSucceeds == pc = "collect" /\ tick <= lastTick /\ ~ListPods(cluster, tick).err

(* C20: when the collector's pod listing fails in a tick, the tick is      *)
(* aborted: no diagnostics run, the metric history is not updated, no      *)
(* prediction is made and no remediation is dispatched; the loop sleeps    *)
(* one interval, and the next tick, when its listing succeeds, goes on to  *)
(* the diagnostics with the pods it listed.                                *)
FailedListingAbortsTick ==
    /\ [][ListingFails =>
             /\ tick' = tick + 1
             /\ pc' = "collect"
             /\ UNCHANGED <<stuckContainers, containerChecks, restartPatterns, diagHistory,
                            podHistory, inserted, predictions, healingActions,
                            healerHistory, appended, actionCounts, deployments, calls,
                            engineLog>>]_vars
    /\ [][ListingSucceeds =>
             /\ tick' = tick
             /\ pc' = "diagnose"
             /\ Len(metrics') =
                    Cardinality({k \in DOMAIN cluster.pods :
                        /\ tick \notin cluster.pods[k].Away
                        /\ ~SystemNamespace(cluster.pods[k].Namespace)})]_vars

(* the listing of tick 1 failed and left nothing behind; tick 2 listed the *)
(* pods, ran the diagnostics and recorded its one sample per pod           *)
TickAfterFailedListing ==
    /\ "listPodsOnce" \in cluster.faults
    /\ tick = 2
    /\ pc = "sleep"
    /\ metrics # <<>>
    /\ calls # <<>>
    /\ DOMAIN podHistory # {}
    /\ \A key \in DOMAIN podHistory : Len(podHistory[key]) = 1

(* the pod of the cluster an observation was made of *)
PodOf(m) == FindPod(cluster.pods, m.Namespace, m.Name)

NoMetricsFor(m) == "listMetrics" \in cluster.faults \/ ~PodOf(m).Metered

(* C21: when the metrics listing fails but the pod listing succeeds, the   *)
(* tick continues and every emitted observation has CPUPercent = 0 and     *)
(* MemPercent = 0; the same holds for a single pod without metrics entry.  *)
NoMetricsMeansZeroUsage ==
    /\ [](\A k \in DOMAIN metrics :
             NoMetricsFor(metrics[k]) =>
                 metrics[k].CPUPercent = 0 /\ metrics[k].MemPercent = 0)
    /\ [][ListingSucceeds /\ "listMetrics" \in cluster.faults =>
             /\ pc' = "diagnose"
             /\ metrics' # <<>>]_vars

(* a pod using CPU was observed with zero usage beside a pod observed with *)
(* its usage, and the tick ran to its end                                  *)
ZeroUsageObserved ==
    /\ pc = "sleep"
    /\ \E k \in DOMAIN metrics :
          /\ PodOf(metrics[k]).CpuMilli > 0
          /\ ~PodOf(metrics[k]).Metered
          /\ metrics[k].CPUPercent = 0
    /\ \E k \in DOMAIN metrics : metrics[k].CPUPercent > 0

ExecFails(cr) == ProbeOf(cluster, cr).execErr

NegativeSignal(check) == check.Status \in {"WARNING", "CRITICAL"}

LastSample(cr) ==
    LET h == diagHistory[StatsKey(cr.Namespace, cr.PodName, cr.ContainerName)]
    IN  h[Len(h)]

(* C22: whenever an Exec call fails during a diagnostic probe, the DNS, root *)
(* disk, /tmp and connectivity checks each end with status WARNING or        *)
(* CRITICAL and the container's stats sample of the tick is marked as an     *)
(* exec failure.                                                             *)
ExecFailureIsNegativeSignal ==
    \A k \in DOMAIN containerChecks :
        ExecFails(containerChecks[k]) =>
            /\ \A j \in DOMAIN containerChecks[k].Checks :
                  NegativeSignal(containerChecks[k].Checks[j])
            /\ LastSample(containerChecks[k]).IsStuck

(* every Exec into the container failed: its sample is marked, its DNS check *)
(* is CRITICAL, and its /tmp check ended OK                                  *)
TmpCheckOkOnExecFailure ==
    \E k \in DOMAIN containerChecks :
        /\ ExecFails(containerChecks[k])
        /\ LastSample(containerChecks[k]).IsStuck
        /\ \E j \in DOMAIN containerChecks[k].Checks :
              /\ containerChecks[k].Checks[j].CheckName = "/tmp Directory"
              /\ containerChecks[k].Checks[j].Status = "OK"
        /\ \E j \in DOMAIN containerChecks[k].Checks :
              /\ containerChecks[k].Checks[j].CheckName = "DNS Resolution"
              /\ containerChecks[k].Checks[j].Status = "CRITICAL"

Worst(statuses) ==
    IF "CRITICAL" \in statuses THEN "CRITICAL"
    ELSE IF "WARNING" \in statuses THEN "WARNING"
    ELSE "OK"

StatusesOf(checks) == {checks[k].Status : k \in DOMAIN checks}

(* the containers RunContainerChecks looks at, in the order of the listing *)
CheckedContainers ==
    LET pods == SelectSeq(ListPods(cluster, tick).items,
                          LAMBDA pod : pod.Phase = "Running"
                                       /\ ~SystemNamespace(pod.Namespace))
    IN  Flatten([k \in DOMAIN pods |->
            [j \in DOMAIN pods[k].Containers |->
                checkContainer(pods[k].Namespace, pods[k].Name,
                               pods[k].Containers[j]).result]])

(* C23: for every container check result the overall status is the worst  *)
(* status among its checks (CRITICAL over WARNING over OK, whatever the    *)
(* order of the checks) and NeedsAction holds iff the overall status is    *)
(* not OK; RunContainerChecks returns exactly the results that need action *)
OverallIsWorst ==
    pc = "heal" =>
        /\ \A k \in DOMAIN CheckedContainers :
              LET cr == CheckedContainers[k]
              IN  /\ cr.OverallStatus = Worst(StatusesOf(cr.Checks))
                  /\ cr.NeedsAction <=> cr.OverallStatus # "OK"
                  /\ \A p \in Permutations(DOMAIN cr.Checks) :
                        Overall("OK", [j \in DOMAIN cr.Checks |-> cr.Checks[p[j]]])
                            = cr.OverallStatus
        /\ containerChecks =
               SelectSeq(CheckedContainers,
                         LAMBDA cr : Worst(StatusesOf(cr.Checks)) # "OK")

(* a result whose CRITICAL check is followed by a WARNING check was *)
(* returned as CRITICAL                                             *)
CriticalBeforeWarning ==
    /\ pc = "heal"
    /\ \E k \in DOMAIN containerChecks :
          /\ containerChecks[k].OverallStatus = "CRITICAL"
          /\ \E i, j \in DOMAIN containerChecks[k].Checks :
                /\ i < j
                /\ containerChecks[k].Checks[i].Status = "CRITICAL"
                /\ containerChecks[k].Checks[j].Status = "WARNING"

----------------------------------------------------------------------------
(* One run of the diagnostics over a container whose stats ring already *)
(* holds samples of earlier ticks                                       *)

StuckProbes ==
    { [Healthy EXCEPT !.procCount = p, !.load = l] : p \in {3, 4, 7, 8}, l \in {79, 80} }
    \cup { [Healthy EXCEPT !.execErr = TRUE] }

(* what getContainerStats stored at tick i for a container answering as probe *)
SampleOf(probe, i) ==
    getContainerStats(S_default, S_web1, Container("app", 0, NoExit, probe), i).stats

(* the rings analyzeContainer can have left behind: at most StatsCap samples, *)
(* one per tick, the two newest of them over every answer                     *)
Rings ==
    { <<>> } \cup { <<SampleOf(p, 1)>> : p \in StuckProbes }
    \cup
    { [k \in 1..(n + 2) |->
          IF k <= n THEN SampleOf(Healthy, k)
          ELSE IF k = n + 1 THEN SampleOf(p1, k) ELSE SampleOf(p2, k)] :
        n \in {0, 1, StatsCap - 3, StatsCap - 2}, p1 \in StuckProbes, p2 \in StuckProbes }

InitStuck ==
    /\ \E probe \in StuckProbes, ring \in Rings :
          /\ cluster = Scenario(<<UserPod(S_web1, "Running", 0, 0, 0, probe)>>, {})
          /\ diagHistory =
                IF ring = <<>> THEN <<>>
                ELSE [k \in {StatsKey(S_default, S_web1, "app")} |-> ring]
          /\ tick = Len(ring) + 1
    /\ lastTick = tick
    /\ dryRun = FALSE
    /\ environ = NoEnvironment
    /\ served = NothingServed
    /\ pc = "diagnose"
    /\ metrics = GetAllPodMetrics(cluster, tick).metrics
    /\ podHistory = <<>>
    /\ inserted = <<>>
    /\ stuckContainers = <<>>
    /\ containerChecks = <<>>
    /\ restartPatterns = <<>>
    /\ healingActions = <<>>
    /\ predictions = <<>>
    /\ actionCounts = <<>>
    /\ healerHistory = <<>>
    /\ deployments = InitialDeployments
    /\ calls = <<>>
    /\ appended = <<>>
    /\ engineLog = <<>>

SpecStuck == InitStuck /\ [][Diagnose]_vars

(* the rule of the spec over the three most recent samples *)
StuckRule(ring) ==
    /\ Len(ring) >= 3
    /\ LET s == LastOf(ring, 3)
       IN  \/ \E k \in 1..3 : s[k].IsStuck
           \/ \A k \in 1..3 : s[k].CPUIOwait >= 80
           \/ \A k \in 1..3 : s[k].ProcessCount <= 3
           \/ s[1].ProcessCount - s[3].ProcessCount >= 4

ReportedStuck(results, key) ==
    \E k \in DOMAIN results :
        StatsKey(results[k].Namespace, results[k].PodName, results[k].ContainerName) = key

(* C24: the per-container stats ring never holds more than 10 samples, the *)
(* oldest leaving first, and a container is reported stuck in a tick iff   *)
(* the ring holds at least 3 samples and over the most recent 3: any has   *)
(* the exec failure mark, or all three have load >= 80, or all three have  *)
(* a process count <= 3, or the process count dropped by at least 4 from   *)
(* the first to the last of them.                                          *)
StuckRuleAndRing ==
    /\ [](\A key \in DOMAIN diagHistory : Len(diagHistory[key]) <= 10)
    /\ [][pc = "diagnose" =>
             \A key \in DOMAIN diagHistory' :
                 LET old == Lookup(diagHistory, key)
                     new == diagHistory'[key]
                 IN  /\ new[Len(new)].Timestamp = tick
                     /\ new = LastOf(old \o <<new[Len(new)]>>, 10)
                     /\ ReportedStuck(stuckContainers', key) <=> StuckRule(new)]_vars

(* a full ring took its eleventh sample, and the container was reported *)
(* stuck for a process count that fell from 8 to 4                      *)
RingFullAndProcessesFell ==
    /\ pc = "heal"
    /\ tick = 11
    /\ \E key \in DOMAIN diagHistory :
          /\ Len(diagHistory[key]) = 10
          /\ diagHistory[key][1].Timestamp = 2
          /\ diagHistory[key][8].ProcessCount = 8
          /\ diagHistory[key][10].ProcessCount = 4
          /\ \A k \in 8..10 : ~diagHistory[key][k].IsStuck /\ diagHistory[key][k].CPUIOwait < 80
          /\ ReportedStuck(stuckContainers, key)

----------------------------------------------------------------------------
(* One run of the restart analyzer over a pod of every restart count, age *)
(* and last termination                                                   *)

(* ages at tick 1 are in ticks of 30 s: around 30 minutes, 1 hour, 10 hours *)
(* and 50 hours                                                            *)
RestartedPods ==
    LET RestartCounts == {1, 2, 3, 4, 5, 9, 10}
        CreatedAgos == {58, 59, 118, 119, 1198, 1199, 5999}
        LastExits ==
            {NoExit, Exited(137, "OOMKilled"), Exited(137, "Error"), Exited(1, "Error"),
             Exited(143, "Completed"), Exited(0, "OOMKilled")}
    IN  { Pod(S_default, S_web1, "Running", <<Container("app", r, e, Healthy)>>,
              ago, 0, 0) :
            r \in RestartCounts, e \in LastExits, ago \in CreatedAgos }
        \cup
        { Pod(S_default, S_web1, "Running",
              <<Container("app", r, e1, Healthy), Container("sidecar", 1, e2, Healthy)>>,
              118, 0, 0) :
            r \in {1, 4}, e1 \in LastExits, e2 \in LastExits }

InitRestarts ==
    /\ \E pod \in RestartedPods : cluster = Scenario(<<pod>>, {})
    /\ tick = 1
    /\ lastTick = tick
    /\ dryRun = FALSE
    /\ environ = NoEnvironment
    /\ served = NothingServed
    /\ pc = "diagnose"
    /\ metrics = GetAllPodMetrics(cluster, tick).metrics
    /\ podHistory = <<>>
    /\ inserted = <<>>
    /\ stuckContainers = <<>>
    /\ containerChecks = <<>>
    /\ restartPatterns = <<>>
    /\ healingActions = <<>>
    /\ predictions = <<>>
    /\ diagHistory = <<>>
    /\ actionCounts = <<>>
    /\ healerHistory = <<>>
    /\ deployments = InitialDeployments
    /\ calls = <<>>
    /\ appended = <<>>
    /\ engineLog = <<>>

SpecRestarts == InitRestarts /\ [][Diagnose]_vars

(* the pod a restart pattern was made of *)
PatternPod(pattern) == FindPod(cluster.pods, pattern.Namespace, pattern.PodName)

PatternAge(pattern) == PatternPod(pattern).CreatedAgo + tick

(* first match of the five rules; 1 h is 120 ticks, and restarts per hour *)
(* exceed 0.1 iff 1200 * restarts > age                                   *)
ExpectedPattern(restarts, age) ==
    IF restarts >= 10 THEN "CRASH_LOOP"
    ELSE IF restarts >= 5 /\ age < 120 THEN "RAPID_RESTART"
    ELSE IF restarts >= 3 /\ age < 60 THEN "STARTUP_FAILURE"
    ELSE IF 1200 * restarts > age THEN "PERIODIC_RESTART"
    ELSE "STABLE"

RestartsOf(pod) == SumOver(pod.Containers, "RestartCount")

(* C25: for every pod with at least one restart the restart pattern is the *)
(* first match of: restarts >= 10 CRASH_LOOP; restarts >= 5 and age < 1 h  *)
(* RAPID_RESTART; restarts >= 3 and age < 30 min STARTUP_FAILURE; restarts *)
(* per hour > 0.1 PERIODIC_RESTART; otherwise STABLE.                      *)
PatternIsFirstMatch ==
    pc = "heal" =>
        /\ \A k \in DOMAIN restartPatterns :
              /\ restartPatterns[k].RestartCount = RestartsOf(PatternPod(restartPatterns[k]))
              /\ restartPatterns[k].Pattern =
                     ExpectedPattern(restartPatterns[k].RestartCount,
                                     PatternAge(restartPatterns[k]))
        /\ \A j \in DOMAIN cluster.pods :
              LET pod == cluster.pods[j]
              IN  RestartsOf(pod) >= 1 /\ ~SystemNamespace(pod.Namespace)
                     /\ tick \notin pod.Away
                  => \E k \in DOMAIN restartPatterns : PatternPod(restartPatterns[k]) = pod

(* a pod of 5 restarts and one hour of age, which the RAPID_RESTART rule *)
(* just misses, was found PERIODIC_RESTART                               *)
RapidRestartMissed ==
    /\ pc = "heal"
    /\ \E k \in DOMAIN restartPatterns :
          /\ restartPatterns[k].RestartCount = 5
          /\ PatternAge(restartPatterns[k]) = 120
          /\ restartPatterns[k].Pattern = "PERIODIC_RESTART"

OomTerminated(pod) ==
    \E k \in DOMAIN pod.Containers :
        /\ pod.Containers[k].LastExit.terminated
        /\ \/ pod.Containers[k].LastExit.reason = "OOMKilled"
           \/ pod.Containers[k].LastExit.code = 137

(* C26: for every restarted pod whose last termination has reason OOMKilled *)
(* or exit code 137, the restart pattern has an OOM root cause, severity    *)
(* CRITICAL and exactly the fix tags INCREASE_MEMORY_LIMITS,                *)
(* CHECK_MEMORY_LEAK, OPTIMIZE_MEMORY, whatever the restart frequency.      *)
OomOverridesPattern ==
    \A k \in DOMAIN restartPatterns :
        OomTerminated(PatternPod(restartPatterns[k])) =>
            /\ restartPatterns[k].RootCause
                   \in {"Out of Memory killed", "Container killed by OOM or system"}
            /\ restartPatterns[k].Severity = "CRITICAL"
            /\ {restartPatterns[k].Actions[j] : j \in DOMAIN restartPatterns[k].Actions}
                   = {"INCREASE_MEMORY_LIMITS", "CHECK_MEMORY_LEAK", "OPTIMIZE_MEMORY"}

(* a container exited with code 137 and a reason other than OOMKilled: the *)
(* pattern keeps the severity of its frequency and the tags of its pattern *)
Exit137NotOverridden ==
    \E k \in DOMAIN restartPatterns :
        /\ \A j \in DOMAIN PatternPod(restartPatterns[k]).Containers :
              LET e == PatternPod(restartPatterns[k]).Containers[j].LastExit
              IN  e.terminated /\ e.code = 137 /\ e.reason # "OOMKilled"
        /\ restartPatterns[k].Severity = "LOW"
        /\ contains(restartPatterns[k].Actions, "INCREASE_MEMORY")
        /\ ~contains(restartPatterns[k].Actions, "INCREASE_MEMORY_LIMITS")

(* the pod's history at prediction time, the tick's observation included *)
HistoryOf(m) == Lookup(podHistory, PodKey(m.Namespace, m.Name))

SlopeTimes(slope, k, m, resourceType) ==
    slope.num * k =
        (Resource(m, resourceType) - Resource(HistoryOf(m)[1], resourceType)) * 120 * slope.den

(* C27: the CPU and memory slopes used by the predictor equal (latest -     *)
(* oldest) / elapsed_hours with elapsed_hours = history_len * 30 / 3600,    *)
(* history_len the number of samples in the pod's history at prediction     *)
(* time: slope * history_len = (latest - oldest) * 120.                     *)
SlopeOverHistoryLen ==
    pc = "execute" =>
        \A k \in DOMAIN metrics :
            LET m == metrics[k]
                result == AnalysisOf(m)
            IN  Len(HistoryOf(m)) >= 5 =>
                    /\ SlopeTimes(result.CPUGrowthRate, Len(HistoryOf(m)), m, "cpu")
                    /\ SlopeTimes(result.MemoryLeakRate, Len(HistoryOf(m)), m, "memory")

(* memory rose over a history of 6 samples and the slope was taken over 7 *)
SlopeOverOneMore ==
    /\ pc = "execute"
    /\ \E k \in DOMAIN metrics :
          LET m == metrics[k]
          IN  /\ Len(HistoryOf(m)) = 6
              /\ m.MemPercent > HistoryOf(m)[1].MemPercent
              /\ SlopeTimes(AnalysisOf(m).MemoryLeakRate, 7, m, "memory")
              /\ ~SlopeTimes(AnalysisOf(m).MemoryLeakRate, 6, m, "memory")

(* the adjacent pairs of a history that show an increase *)
RisingPairs(h, resourceType) ==
    Cardinality({k \in 1..(Len(h) - 1) :
        Resource(h[k + 1], resourceType) > Resource(h[k], resourceType)})

(* strictly more than 70% of the len - 1 adjacent pairs *)
MostPairsRise(h, resourceType) == RisingPairs(h, resourceType) * 10 > 7 * (Len(h) - 1)

DegradationRaised(result) ==
    contains(result.Issues, "Performance degradation detected over time")

(* C28: with at least 5 history samples the performance-degradation issue *)
(* is raised iff strictly more than 70% of the adjacent pairs of the      *)
(* history show a CPU increase, or strictly more than 70% show a memory   *)
(* increase; 3 increases out of 4 pairs raise it.                         *)
DegradationByPairs ==
    pc = "execute" =>
        \A k \in DOMAIN metrics :
            LET h == HistoryOf(metrics[k])
            IN  Len(h) >= 5 =>
                    (DegradationRaised(AnalysisOf(metrics[k]))
                        <=> MostPairsRise(h, "cpu") \/ MostPairsRise(h, "memory"))

(* memory rose in 3 of the 4 adjacent pairs of a history of 5 samples, and *)
(* no degradation issue was raised                                         *)
ThreeOfFourNotRaised ==
    /\ pc = "execute"
    /\ \E k \in DOMAIN metrics :
          /\ Len(HistoryOf(metrics[k])) = 5
          /\ RisingPairs(HistoryOf(metrics[k]), "memory") = 3
          /\ ~DegradationRaised(AnalysisOf(metrics[k]))

(* C29: for a pod whose history holds fewer than 5 samples no trend rule  *)
(* fires: the time to failure is unset, both slopes are 0, the trend is   *)
(* STABLE, no degradation issue is raised, and score, risk and action tag *)
(* depend on the current observation only.                                *)
ShortHistoryNoTrend ==
    pc = "execute" =>
        \A k \in DOMAIN metrics :
            LET m == metrics[k]
                result == AnalysisOf(m)
                alone == analyzePodAdvanced(m, <<>>)
            IN  Len(HistoryOf(m)) < 5 =>
                    /\ result.TimeToFailure.cause = "N/A"
                    /\ result.CPUGrowthRate.num = 0
                    /\ result.MemoryLeakRate.num = 0
                    /\ result.Trend = "STABLE"
                    /\ ~DegradationRaised(result)
                    /\ result.Score = alone.Score
                    /\ result.Risk = alone.Risk
                    /\ result.Action = alone.Action

(* memory rose at every one of 4 samples and no trend rule fired *)
RisingButShort ==
    /\ pc = "execute"
    /\ \E k \in DOMAIN metrics :
          /\ Len(HistoryOf(metrics[k])) = 4
          /\ RisingPairs(HistoryOf(metrics[k]), "memory") = 3
          /\ HistoryOf(metrics[k])[4].MemPercent >= 15
          /\ AnalysisOf(metrics[k]).TimeToFailure.cause = "N/A"
          /\ AnalysisOf(metrics[k]).Trend = "STABLE"

----------------------------------------------------------------------------
(* The order of the steps of a tick *)

(* the step issues a pod delete, a replica update or a cleanup pipeline *)
RemediationStep ==
    \E k \in (Len(calls) + 1)..Len(calls') : Mutating(calls'[k])

(* the history ends, for every pod of the tick's listing, with the tick's *)
(* observation of it, as it does once UpdateHistory(metrics) has run      *)
HistoryHolds(ms) ==
    \A k \in DOMAIN ms :
        LET key == PodKey(ms[k].Namespace, ms[k].Name)
        IN  /\ key \in DOMAIN podHistory
            /\ podHistory[key][Len(podHistory[key])] = ms[k]

(* C30: within a tick no remediation, check-driven or prediction-driven, *)
(* is executed before the tick's history update, and the next tick only  *)
(* starts once the steps of the previous one are over.                   *)
RemediationAfterHistory ==
    [][/\ RemediationStep => HistoryHolds(metrics)
       /\ tick' # tick => pc \in {"collect", "sleep"}]_vars

(* a check-driven cleanup has been carried out in the first tick while the *)
(* history is still empty                                                  *)
HealedBeforeHistory ==
    /\ pc = "predict"
    /\ tick = 1
    /\ metrics # <<>>
    /\ podHistory = <<>>
    /\ \E k \in DOMAIN calls : Mutating(calls[k])
    /\ \E k \in DOMAIN healingActions : healingActions[k].Status = "COMPLETED"

----------------------------------------------------------------------------
(* Cleanup actions *)

CleanupCommandsOf(type) ==
    IF type = "CLEANUP_TMP" THEN TmpCleanupCommands ELSE DiskCleanupCommands

(* the number of times the command was run in the action's container *)
TimesRun(action, cmd) ==
    Cardinality({k \in DOMAIN calls :
        calls[k] = ExecCall(action.Namespace, action.PodName, action.ContainerName, cmd)})

(* the number of cleanups of the action's type carried out in its container *)
TimesCleaned(action) ==
    Cardinality({k \in DOMAIN appended :
        /\ appended[k].ActionType = action.ActionType
        /\ KeyOf(appended[k]) = KeyOf(action)
        /\ appended[k].ContainerName = action.ContainerName
        /\ appended[k].Status # "DRY_RUN"})

(* C31: without dry-run every CLEANUP_TMP or CLEANUP_DISK action runs each *)
(* command of its fixed sequence, whether or not earlier ones failed, ends *)
(* with status COMPLETED and holds one result fragment per command.        *)
CleanupIsBestEffort ==
    ~dryRun =>
        \A k \in DOMAIN appended :
            LET action == appended[k]
                commands == CleanupCommandsOf(action.ActionType)
            IN  action.ActionType \in {"CLEANUP_TMP", "CLEANUP_DISK"} =>
                    /\ action.Status = "COMPLETED"
                    /\ Len(action.Result) = Len(commands)
                    /\ \A c \in DOMAIN commands :
                          /\ TimesRun(action, commands[c]) = TimesCleaned(action)
                          /\ action.Result[c] = "Failed"
                                <=> execInContainer(ProbeOf(cluster, action),
                                                    commands[c]).err

(* both cleanups ran to their last command although an earlier one failed *)
CleanupWentOnAfterFailure ==
    /\ ~dryRun
    /\ \E k, l \in DOMAIN appended :
          /\ appended[k].ActionType = "CLEANUP_TMP"
          /\ appended[k].Result[1] = "Failed"
          /\ appended[k].Result[5] = "Cleanup executed"
          /\ TimesRun(appended[k], TmpCleanupCommands[5]) > 0
          /\ appended[l].ActionType = "CLEANUP_DISK"
          /\ appended[l].Result[3] = "Failed"
          /\ appended[l].Result[4] = "Cleanup executed"
          /\ TimesRun(appended[l], DiskCleanupCommands[4]) > 0

----------------------------------------------------------------------------
(* One run of the container checks over a container whose root disk is over *)
(* 80% full, for every answer of the two /tmp probes                        *)

TmpProbes ==
    { [Healthy EXCEPT !.disk = d, !.tmp = u, !.largeFiles = n, !.failing = f] :
        d \in {85, 95}, u \in {0, 85, 86, 95, 96, 100}, n \in {0, 1, 12},
        f \in {{}, {"df /tmp"}, {"find /tmp -size +10M | wc -l"}} }

InitTmp ==
    /\ \E probe \in TmpProbes :
          cluster = Scenario(<<UserPod(S_web1, "Running", 0, 0, 0, probe)>>, {})
    /\ lastTick = 1
    /\ dryRun = FALSE
    /\ environ = NoEnvironment
    /\ served = NothingServed
    /\ tick = 1
    /\ pc = "diagnose"
    /\ NoLocals
    /\ FreshEngines

SpecTmp == InitTmp /\ [][Diagnose]_vars

(* the /tmp check of a container's result: the third of its checks *)
TmpCheckOf(cr) == cr.Checks[3]

TmpUsageRead(probe) == ~execInContainer(probe, "df /tmp").err

LargeFilesSeen(probe) ==
    /\ ~execInContainer(probe, "find /tmp -size +10M | wc -l").err
    /\ probe.largeFiles > 0

TmpRule(usage, large) ==
    IF usage > 95 THEN <<"CRITICAL", <<"CLEANUP_TMP", "RESTART_POD">>>>
    ELSE IF usage > 85 \/ large THEN <<"WARNING", <<"CLEANUP_TMP">>>>
    ELSE <<"OK", <<>>>>

(* C32: over the usage and the count of large files the check read, the   *)
(* /tmp check is CRITICAL with tags CLEANUP_TMP, RESTART_POD iff usage is *)
(* over 95, WARNING with CLEANUP_TMP iff usage is over 85 and at most 95, *)
(* and otherwise WARNING with CLEANUP_TMP iff there are files over 10 MB; *)
(* large files change neither status nor tags of a result that is not OK. *)
TmpCheckFollowsRule ==
    pc = "heal" =>
        /\ Len(containerChecks) = 1
        /\ \A k \in DOMAIN containerChecks :
              LET probe == ProbeOf(cluster, containerChecks[k])
                  check == TmpCheckOf(containerChecks[k])
              IN  /\ check.CheckName = "/tmp Directory"
                  /\ TmpUsageRead(probe) =>
                        <<check.Status, check.FixActions>>
                            = TmpRule(probe.tmp, LargeFilesSeen(probe))

(* /tmp is over 95% full and holds large files: the check stays CRITICAL *)
(* with both tags                                                        *)
LargeFilesLeftCritical ==
    /\ pc = "heal"
    /\ \E k \in DOMAIN containerChecks :
          /\ ProbeOf(cluster, containerChecks[k]).tmp = 96
          /\ LargeFilesSeen(ProbeOf(cluster, containerChecks[k]))
          /\ TmpCheckOf(containerChecks[k]).Status = "CRITICAL"
          /\ TmpCheckOf(containerChecks[k]).FixActions = <<"CLEANUP_TMP", "RESTART_POD">>

----------------------------------------------------------------------------
(* The predictor at the tick a pod is listed again: its key's history holds *)
(* what was recorded before the pod left the listing                        *)

MaxGap == 2

(* the ticks the pod was listed before it left *)
Stays == 1..(MaxLen - 1)

InitReturn ==
    /\ \E stay \in Stays, gap \in 1..MaxGap :
          /\ tick = stay + gap + 1
          /\ cluster =
                Scenario(<<[UserPod(S_web1, "Running", 0, 0, 0, Healthy)
                               EXCEPT !.Away = (stay + 1)..(stay + gap)]>>, {})
          /\ \E obs \in Observations(stay + 1) :
                /\ metrics = <<[obs[stay + 1] EXCEPT !.Age = 240 + tick]>>
                /\ podHistory =
                      [k \in {PodKey(S_default, S_web1)} |-> SubSeq(obs, 1, stay)]
    /\ lastTick = tick
    /\ dryRun = FALSE
    /\ environ = NoEnvironment
    /\ served = NothingServed
    /\ pc = "predict"
    /\ inserted = podHistory
    /\ stuckContainers = <<>>
    /\ containerChecks = <<>>
    /\ restartPatterns = <<>>
    /\ healingActions = <<>>
    /\ predictions = <<>>
    /\ diagHistory = <<>>
    /\ actionCounts = <<>>
    /\ healerHistory = <<>>
    /\ deployments = InitialDeployments
    /\ calls = <<>>
    /\ appended = <<>>
    /\ engineLog = <<>>

SpecReturn == InitReturn /\ [][Predict]_vars

(* the last tick so far at which the pod was missing from the listing, 0 if none *)
LastAway(pod) ==
    LET past == {i \in pod.Away : i <= tick}
    IN  IF past = {} THEN 0 ELSE CHOOSE i \in past : \A j \in past : j <= i

(* the entries of the pod's history recorded since it is listed again: an *)
(* entry recorded at tick i carries the age CreatedAgo + i                *)
SinceReturn(m) ==
    LET pod == PodOf(m)
    IN  SelectSeq(HistoryOf(m), LAMBDA e : e.Age - pod.CreatedAgo > LastAway(pod))

(* C33: history entries recorded for a pod before it vanished from the   *)
(* cluster view are not consulted by a later prediction, also when a pod *)
(* of the same namespace/name key is listed again: the prediction is the *)
(* one the entries recorded since its return give.                       *)
StaleHistoryNotConsulted ==
    pc = "execute" =>
        \A k \in DOMAIN metrics :
            AnalysisOf(metrics[k]) = analyzePodAdvanced(metrics[k], SinceReturn(metrics[k]))

(* the pod is back after a gap, and the forecast of its first tick back is *)
(* drawn from the entries recorded before it left                          *)
ForecastFromStaleHistory ==
    /\ pc = "execute"
    /\ \E k \in DOMAIN metrics :
          /\ LastAway(PodOf(metrics[k])) = tick - 1
          /\ Len(SinceReturn(metrics[k])) = 1
          /\ Len(HistoryOf(metrics[k])) >= 5
          /\ AnalysisOf(metrics[k]).TimeToFailure.cause # "N/A"
          /\ analyzePodAdvanced(metrics[k], SinceReturn(metrics[k])).TimeToFailure.cause
                = "N/A"
          /\ \E j \in DOMAIN predictions : predictions[j] = AnalysisOf(metrics[k])

----------------------------------------------------------------------------
(* PredictIssues called a second time on the observations and the history *)
(* of the first call                                                      *)

StoreAfterAppending(h, ms) == UpdateHistory(h, ms)

(* p.podHistory once PredictIssues has returned: the call reads            *)
(* p.podHistory[key] and calculateSlope copies the values it needs into a  *)
(* slice of its own                                                        *)
StoreAfterPredictIssues(h, ms) == h

PredictAgain ==
    /\ pc = "execute"
    /\ predictions' = PredictIssues(podHistory, metrics)
    /\ podHistory' = StoreAfterPredictIssues(podHistory, metrics)
    /\ pc' = "sleep"
    /\ UNCHANGED <<config, served, tick, metrics, stuckContainers, containerChecks,
                   restartPatterns, healingActions, diagHistory, actionCounts,
                   healerHistory, deployments, calls, inserted, appended, engineLog>>

NextRepeat ==
    \/ Predict
    \/ PredictAgain

SpecRepeat == InitPredict /\ [][NextRepeat]_vars

----------------------------------------------------------------------------
(* Progress of the loop.  The loop is the only goroutine that runs the tick: *)
(* a step whose calls have returned is followed by the next one.             *)

LiveScenarios ==
    { Scenario(<<SystemPods[1], UserPod(S_web1, "Running", 0, 0, 0, probe)>>, f) :
        probe \in {Healthy, Unhealthy, [Healthy EXCEPT !.hangs = TRUE]},
        f \in FaultSets }

InitLive ==
    /\ cluster \in LiveScenarios
    /\ lastTick = MaxTicks
    /\ dryRun \in BOOLEAN
    /\ environ = NoEnvironment
    /\ served = NothingServed
    /\ tick = 1
    /\ pc = "collect"
    /\ NoLocals
    /\ FreshEngines

SpecLive == InitLive /\ [][Next]_vars /\ WF_vars(Next)

(* C35: every tick eventually completes and the next one starts, whatever *)
(* the cluster API and the Exec calls of the tick do: the loop, whose     *)
(* ticks advance one by one, reaches its last tick.                       *)
EveryTickCompletes == <>(tick = MaxTicks)

(* the loop is inside an exec whose stream never ends *)
LoopInsideExec ==
    /\ pc = "diagnose"
    /\ tick = 1
    /\ ExecHangs(cluster, tick)

----------------------------------------------------------------------------
(* The audit log's statuses and action types *)

FinalStatus(entry) == entry.Status \in {"DRY_RUN", "COMPLETED"}

(* C36: every entry stored in the audit log, and every action returned by *)
(* HealContainerIssues, has the final status DRY_RUN or COMPLETED: the    *)
(* status EXECUTING an action starts with is never left in it.            *)
AuditStatusesAreFinal ==
    /\ \A k \in DOMAIN healerHistory : FinalStatus(healerHistory[k])
    /\ \A k \in DOMAIN healingActions : FinalStatus(healingActions[k])
    /\ \A k \in DOMAIN appended : FinalStatus(appended[k])

(* a dry run has stored a network fix and a /tmp cleanup of two ticks *)
DryRunStatusesStored ==
    /\ dryRun
    /\ tick >= 2
    /\ \E k, l \in DOMAIN healerHistory :
          /\ healerHistory[k].ActionType = "FIX_NETWORK"
          /\ healerHistory[k].Status = "DRY_RUN"
          /\ healerHistory[l].ActionType = "CLEANUP_TMP"
          /\ healerHistory[l].Status = "DRY_RUN"
          /\ healerHistory[l].Timestamp > healerHistory[k].Timestamp

DeleteSucceededFor(entry) ==
    /\ "deletePod" \notin cluster.faults
    /\ \E k \in DOMAIN calls :
          calls[k] = ApiCall("DeletePod", entry.Namespace, entry.PodName)

(* C37: an audit entry has action type RESTART_POD_NETWORK only if, not in *)
(* dry-run, a delete of the entry's pod was issued and returned success: a *)
(* failed delete or a dry run never leaves that type.                      *)
RestartTypeOnlyAfterDelete ==
    \A k \in DOMAIN appended :
        appended[k].ActionType = "RESTART_POD_NETWORK" =>
            /\ ~dryRun
            /\ appended[k].Status = "COMPLETED"
            /\ DeleteSucceededFor(appended[k])
            /\ contains(appended[k].Result, "Pod restarted successfully")

(* in a run without faults the log holds an entry of the second tick that *)
(* was relabelled after the delete of its pod                             *)
RelabelledAfterDelete ==
    /\ ~dryRun
    /\ cluster.faults = {}
    /\ \E k \in DOMAIN healerHistory :
          /\ healerHistory[k].ActionType = "RESTART_POD_NETWORK"
          /\ healerHistory[k].Timestamp = 2
          /\ DeleteSucceededFor(healerHistory[k])

----------------------------------------------------------------------------
(* Pod deletes of one tick *)

(* the deletes of the pod issued so far *)
DeletesIssued(ns, name) ==
    Cardinality({k \in DOMAIN calls : calls[k] = ApiCall("DeletePod", ns, name)})

(* C38: within a single tick at most one pod delete is issued for any pod *)
(* key, whatever the number of its containers that fail the network check *)
(* and whether or not the Action Engine selects a restart for it as well: *)
(* up to tick i no pod has been deleted more than i times.                *)
OneDeletePerPodAndTick ==
    \A k \in DOMAIN cluster.pods :
        DeletesIssued(cluster.pods[k].Namespace, cluster.pods[k].Name) <= tick

(* in the first tick the healer has deleted the same pod once for each of *)
(* its two containers                                                     *)
DeletedOncePerContainer ==
    /\ tick = 1
    /\ \E k, l \in DOMAIN healingActions :
          /\ healingActions[k].ActionType = "RESTART_POD_NETWORK"
          /\ healingActions[l].ActionType = "RESTART_POD_NETWORK"
          /\ KeyOf(healingActions[k]) = KeyOf(healingActions[l])
          /\ healingActions[k].ContainerName # healingActions[l].ContainerName
          /\ DeletesIssued(healingActions[k].Namespace, healingActions[k].PodName) = 2

----------------------------------------------------------------------------
(* The action tag of restarting and of not running pods *)

Restarting(m) == m.Status = "Running" /\ m.Restarts >= 3

(* the calls of the step that delete the pod or update a deployment of its *)
(* namespace                                                               *)
MutationsFor(m) ==
    {k \in (Len(calls) + 1)..Len(calls') :
        /\ calls'[k].op \in {"DeletePod", "UpdateDeployment"}
        /\ calls'[k].ns = m.Namespace}

(* C39: for every Running pod with restart_count >= 3 the Prediction's   *)
(* action tag is INVESTIGATE_RESTARTS, whatever threshold or forecast    *)
(* rule fired as well, and ExecuteActions issues no pod delete and no    *)
(* scale-up for it; for every pod that is not Running the tag is         *)
(* RESTART_POD.                                                          *)
RestartsAreInvestigated ==
    /\ [](pc = "execute" =>
            \A k \in DOMAIN metrics :
                /\ Restarting(metrics[k]) =>
                      AnalysisOf(metrics[k]).Action = "INVESTIGATE_RESTARTS"
                /\ metrics[k].Status # "Running" =>
                      AnalysisOf(metrics[k]).Action = "RESTART_POD"
                /\ \A j \in PredictionOf(metrics[k]) :
                      predictions[j] = AnalysisOf(metrics[k]))
    /\ [][pc = "execute" =>
            \A k \in DOMAIN metrics :
                Restarting(metrics[k]) => MutationsFor(metrics[k]) = {}]_vars

(* not in dry-run, a Running pod with 3 restarts and CPU over 15% was *)
(* predicted with tag INVESTIGATE_RESTARTS and only had its events    *)
(* listed                                                             *)
OverloadedButInvestigated ==
    /\ pc = "sleep"
    /\ ~dryRun
    /\ \E k \in DOMAIN metrics :
          /\ Restarting(metrics[k])
          /\ metrics[k].CPUPercent > 150
          /\ \E j \in DOMAIN predictions :
                /\ predictions[j] = AnalysisOf(metrics[k])
                /\ predictions[j].Action = "INVESTIGATE_RESTARTS"
                /\ contains(predictions[j].Issues, "CRITICAL CPU")
    /\ \E k \in DOMAIN calls : calls[k].op = "ListEvents"
    /\ \A k \in DOMAIN calls : ~Mutating(calls[k])

====
